---- MODULE Spec2Model ----
(***************************************************************************)
(* Model of the node's engine supervisor (node/src/engine.rs, Engine::run  *)
(* and NamedTask), of the application mailbox                              *)
(* (node/src/application/ingress.rs) and of the state entities' codec      *)
(* (types/src/casino/economy.rs).                                          *)
(***************************************************************************)
EXTENDS Integers, Sequences, FiniteSets, TLC

VARIABLES
    stopSig,      \* engine stop Signal: "pending", "raised" or "dropped"
    stopValue,    \* the i32 carried by a raised stop signal
    runPc,        \* position of Engine::run
    started,      \* actors started so far, in the order of the start calls
    status,       \* per actor: state of its task as seen through its Handle
    abortCalled,  \* actors whose handle Engine::run has called abort on
    completed,    \* the TaskCompletion returned by select_all
    remaining,    \* the tasks select_all handed back
    abortIdx,     \* index of the for loop over remaining
    engineLog,    \* the event Engine::run logs before returning
    closed,       \* the application dropped the receiving end of its mailbox
    queue,        \* messages queued in the application mailbox, oldest first
    parked,       \* per call: its sender clone is parked (is_parked)
    parkedQueue,  \* the channel's queue of parked sender tasks
    call,         \* per call slot: operation, arguments, position, outcome
    reply,        \* per call: state of the one-shot response channel
    received,     \* messages the application has dequeued, in order
    held,         \* the state entity the program holds, with its type
    buffer,       \* the bytes a reader is about to decode
    readResult,   \* what read_cfg returned for the buffer
    codecRound,   \* number of decoded values taken over as the held entity
    marshalConfig, \* activity_timeout and the marshal's view_retention_timeout
    peer,         \* what a second node made of the same value or bytes
    metrics,      \* the process gauges, their task and the runtime's clock
    staking       \* the staking pool: accumulator, carry, stakers, totals

engineVars == <<runPc, started, status, abortCalled, completed, remaining,
                abortIdx, engineLog>>
stopVars == <<stopSig, stopValue>>
mailboxVars == <<closed, queue, parked, parkedQueue, call, reply, received>>
typesVars == <<held, buffer, readResult, codecRound, marshalConfig, peer,
               metrics, staking>>
vars == <<stopSig, stopValue, runPc, started, status, abortCalled, completed,
          remaining, abortIdx, engineLog, closed, queue, parked, parkedQueue,
          call, reply, received, held, buffer, readResult, codecRound,
          marshalConfig, peer, metrics, staking>>

----------------------------------------------------------------------------
(* Bounds *)

\* largest value a raised stop signal carries (values are 0..MaxStopValue)
MaxStopValue == 1

\* number of actor tasks that finish on their own before the engine is down
MaxExits == 2

\* number of mailbox calls made (each through its own clone of the sender)
NumCalls == 2

\* mailbox_size: the buffer the application's channel is created with
MailboxSize == 1

\* views range over 1..MaxView
MaxView == 1

----------------------------------------------------------------------------
(* Engine::run *)

None == [kind |-> "None"]

\* start calls with consensus started ahead of application and marshal
StartOrder_ConsensusEarly ==
    <<"system_metrics", "seeder", "aggregation", "aggregator", "buffer",
      "consensus", "application", "marshal">>

\* the actor start calls of Engine::run, in program order
StartOrder ==
    <<"system_metrics", "seeder", "aggregation", "aggregator", "buffer",
      "application", "marshal", "consensus">>

\* <<sender, consumer>>: the mailboxes handed to each actor, at construction
\* (consensus: automaton, relay, reporter; aggregation: automaton, reporter)
\* or at start (application, marshal)
SendsInto ==
    {<<"consensus", "application">>, <<"consensus", "marshal">>,
     <<"consensus", "seeder">>,
     <<"aggregation", "aggregator">>,
     <<"application", "marshal">>, <<"application", "seeder">>,
     <<"application", "aggregator">>,
     <<"marshal", "application">>, <<"marshal", "buffer">>}

\* the vector handed to select_all
Tasks ==
    <<"system_metrics", "seeder", "aggregation", "aggregator", "buffer",
      "application", "marshal", "consensus", "engine">>

Actors == {StartOrder[i] : i \in 1..Len(StartOrder)}

\* NamedTaskInner: every task is Actor(handle) except the Stop(signal) task
IsActorTask(t) == t \in Actors

\* results a Handle resolves to: Ok, an actor error, or Closed (aborted)
HandleResults == {"Ok", "Err", "Closed"}

\* a poll that never reports the stop signal
NamedTask_poll_IgnoresStop(t, st, sig, val) ==
    IF IsActorTask(t)
    THEN IF st[t] \in HandleResults
         THEN [kind |-> "Actor", name |-> t, result |-> st[t]]
         ELSE IF st[t] = "Aborted"
              THEN [kind |-> "Actor", name |-> t, result |-> "Closed"]
              ELSE None
    ELSE None

\* a poll that takes a running actor's handle for a finished one
NamedTask_poll_Eager(t, st, sig, val) ==
    IF IsActorTask(t)
    THEN IF st[t] \in HandleResults
         THEN [kind |-> "Actor", name |-> t, result |-> st[t]]
         ELSE IF st[t] = "Aborted"
              THEN [kind |-> "Actor", name |-> t, result |-> "Closed"]
              ELSE [kind |-> "Actor", name |-> t, result |-> "Ok"]
    ELSE IF sig = "raised" THEN [kind |-> "Stop", value |-> val]
         ELSE IF sig = "dropped" THEN [kind |-> "Stop", value |-> 0]
         ELSE None

\* NamedTask::poll: the completion a task is ready with, None when pending
\* (a handle the supervisor aborted resolves to Closed as well)
NamedTask_poll(t, st, sig, val) ==
    IF IsActorTask(t)
    THEN IF st[t] \in HandleResults
         THEN [kind |-> "Actor", name |-> t, result |-> st[t]]
         ELSE IF st[t] = "Aborted"
              THEN [kind |-> "Actor", name |-> t, result |-> "Closed"]
              ELSE None
    ELSE IF sig = "raised" THEN [kind |-> "Stop", value |-> val]
         ELSE IF sig = "dropped" THEN [kind |-> "Stop", value |-> 0]
         ELSE None

\* an abort that leaves the consensus handle alone
NamedTask_abort_SkipsConsensus(t, st) ==
    IF IsActorTask(t) /\ st[t] = "running" /\ t # "consensus"
    THEN [st EXCEPT ![t] = "Aborted"]
    ELSE st

\* NamedTask::abort: aborts the handle of an Actor task, no-op on Stop
NamedTask_abort(t, st) ==
    IF IsActorTask(t) /\ st[t] = "running"
    THEN [st EXCEPT ![t] = "Aborted"]
    ELSE st

\* Vec::swap_remove as used by select_all to build the remaining vector
swap_remove(s, i) ==
    [j \in 1..(Len(s) - 1) |-> IF j = i THEN s[Len(s)] ELSE s[j]]

\* select_all polls the tasks in vector order; index of the first ready one
ReadyIdx(st, sig, val) ==
    {i \in 1..Len(Tasks) : NamedTask_poll(Tasks[i], st, sig, val) # None}

\* a select_all that reports the last ready task of the list
FirstReady_Last(st, sig, val) ==
    CHOOSE i \in ReadyIdx(st, sig, val) :
        \A j \in ReadyIdx(st, sig, val) : i >= j

\* the first ready task of the list
FirstReady(st, sig, val) ==
    CHOOSE i \in ReadyIdx(st, sig, val) :
        \A j \in ReadyIdx(st, sig, val) : i <= j

EngineInit ==
    /\ stopSig = "pending"
    /\ stopValue = 0
    /\ runPc = "start"
    /\ started = <<>>
    /\ status = [a \in Actors |-> "unstarted"]
    /\ abortCalled = {}
    /\ completed = None
    /\ remaining = <<>>
    /\ abortIdx = 0
    /\ engineLog = None

\* one `let x_handle = self.x.start(..)` statement
RunStart ==
    /\ runPc = "start"
    /\ Len(started) < Len(StartOrder)
    /\ LET a == StartOrder[Len(started) + 1] IN
        /\ started' = Append(started, a)
        /\ status' = [status EXCEPT ![a] = "running"]
    /\ UNCHANGED <<stopVars, runPc, abortCalled, completed, remaining,
                   abortIdx, engineLog>>
    /\ UNCHANGED <<mailboxVars, typesVars>>

\* building the tasks vector and entering select_all(tasks).await
RunAwait ==
    /\ runPc = "start"
    /\ Len(started) = Len(StartOrder)
    /\ runPc' = "select"
    /\ UNCHANGED <<stopVars, started, status, abortCalled, completed,
                   remaining, abortIdx, engineLog>>
    /\ UNCHANGED <<mailboxVars, typesVars>>

\* select_all resolves with the first ready task and the rest of the vector
RunSelectAll ==
    /\ runPc = "select"
    /\ ReadyIdx(status, stopSig, stopValue) # {}
    /\ LET i == FirstReady(status, stopSig, stopValue) IN
        /\ completed' = NamedTask_poll(Tasks[i], status, stopSig, stopValue)
        /\ remaining' = swap_remove(Tasks, i)
    /\ abortIdx' = 1
    /\ runPc' = "abort"
    /\ UNCHANGED <<stopVars, started, status, abortCalled, engineLog>>
    /\ UNCHANGED <<mailboxVars, typesVars>>

\* one iteration of `for task in &remaining { task.abort(); }`
RunAbortNext ==
    /\ runPc = "abort"
    /\ abortIdx <= Len(remaining)
    /\ LET t == remaining[abortIdx] IN
        /\ status' = NamedTask_abort(t, status)
        /\ abortCalled' = IF IsActorTask(t) THEN abortCalled \cup {t}
                          ELSE abortCalled
    /\ abortIdx' = abortIdx + 1
    /\ UNCHANGED <<stopVars, runPc, started, completed, remaining, engineLog>>
    /\ UNCHANGED <<mailboxVars, typesVars>>

\* a supervisor that restarts the actor that completed and waits again
RunLog_Restart ==
    /\ runPc = "abort"
    /\ abortIdx > Len(remaining)
    /\ engineLog' =
        IF completed.kind = "Stop"
        THEN [level |-> "warn", cause |-> "engine", value |-> completed.value]
        ELSE IF completed.result = "Ok"
             THEN [level |-> "warn", cause |-> completed.name, value |-> 0]
             ELSE [level |-> "error", cause |-> completed.name, value |-> 0]
    /\ IF completed.kind = "Actor"
       THEN /\ status' = [status EXCEPT ![completed.name] = "running"]
            /\ runPc' = "select"
       ELSE /\ runPc' = "returned"
            /\ UNCHANGED status
    /\ UNCHANGED <<stopVars, started, abortCalled, completed, remaining,
                   abortIdx>>
    /\ UNCHANGED <<mailboxVars, typesVars>>

\* `match completed { .. }`: the log line, then run returns
RunLog ==
    /\ runPc = "abort"
    /\ abortIdx > Len(remaining)
    /\ engineLog' =
        IF completed.kind = "Stop"
        THEN [level |-> "warn", cause |-> "engine", value |-> completed.value]
        ELSE IF completed.result = "Ok"
             THEN [level |-> "warn", cause |-> completed.name, value |-> 0]
             ELSE [level |-> "error", cause |-> completed.name, value |-> 0]
    /\ runPc' = "returned"
    /\ UNCHANGED <<stopVars, started, status, abortCalled, completed,
                   remaining, abortIdx>>
    /\ UNCHANGED <<mailboxVars, typesVars>>

\* a running actor task finishes: returns, fails, or has its handle aborted
ActorExit(a, r) ==
    /\ status[a] = "running"
    /\ Cardinality({b \in Actors : status[b] \in HandleResults}) < MaxExits
    /\ status' = [status EXCEPT ![a] = r]
    /\ UNCHANGED <<stopVars, runPc, started, abortCalled, completed,
                   remaining, abortIdx, engineLog>>
    /\ UNCHANGED <<mailboxVars, typesVars>>

\* the runtime raises the stop signal with a value
StopRaise(v) ==
    /\ stopSig = "pending"
    /\ stopSig' = "raised"
    /\ stopValue' = v
    /\ UNCHANGED <<engineVars, mailboxVars, typesVars>>

\* the stop signal's sender goes away without a value
StopDrop ==
    /\ stopSig = "pending"
    /\ stopSig' = "dropped"
    /\ UNCHANGED <<stopValue, engineVars, mailboxVars, typesVars>>

RunStep == RunStart \/ RunAwait \/ RunSelectAll \/ RunAbortNext \/ RunLog

EngineNext ==
    \/ RunStart
    \/ RunAwait
    \/ RunSelectAll
    \/ RunAbortNext
    \/ RunLog
    \/ \E a \in Actors, r \in HandleResults : ActorExit(a, r)
    \/ \E v \in 0..MaxStopValue : StopRaise(v)
    \/ StopDrop

----------------------------------------------------------------------------
(* Application mailbox: futures mpsc channel, one sender clone per call *)

Calls == 1..NumCalls
Views == 1..MaxView

\* genesis_digest(): the constant genesis digest
GenesisDigest == "g"
Digests == {"g", "d"}

Ops == {"genesis", "propose", "verify", "broadcast", "ancestry", "seeded",
        "report"}

NoArgs ==
    [view |-> 0, pview |-> 0, pdigest |-> "-", payload |-> "-", block |-> "-"]

\* the arguments a call of each operation is made with
ArgsOf(op) ==
    LET ctx == {[NoArgs EXCEPT !.view = v, !.pview = pv, !.pdigest = d] :
                    v \in Views, pv \in 0..(MaxView - 1), d \in Digests}
        contexts == {a \in ctx : a.pview < a.view}
    IN  CASE op = "genesis" -> {NoArgs}
          [] op = "propose" -> contexts
          [] op = "verify" ->
                {[a EXCEPT !.payload = x] : a \in contexts, x \in Digests}
          [] op = "broadcast" -> {[NoArgs EXCEPT !.payload = x] : x \in Digests}
          [] op = "ancestry" ->
                {[NoArgs EXCEPT !.view = v, !.block = b] :
                    v \in Views, b \in Digests}
          [] op = "seeded" -> {[NoArgs EXCEPT !.block = b] : b \in Digests}
          [] op = "report" -> {[NoArgs EXCEPT !.block = b] : b \in Digests}

\* a report that sends the variant of seeded
Variant_ReportAsSeeded(op) ==
    CASE op = "genesis" -> "Genesis"
      [] op = "propose" -> "Propose"
      [] op = "verify" -> "Verify"
      [] op = "broadcast" -> "Broadcast"
      [] op = "ancestry" -> "Ancestry"
      [] op = "seeded" -> "Seeded"
      [] op = "report" -> "Seeded"

\* enum Message: the variant each operation sends
Variant(op) ==
    CASE op = "genesis" -> "Genesis"
      [] op = "propose" -> "Propose"
      [] op = "verify" -> "Verify"
      [] op = "broadcast" -> "Broadcast"
      [] op = "ancestry" -> "Ancestry"
      [] op = "seeded" -> "Seeded"
      [] op = "report" -> "Finalized"

\* every variant but Broadcast carries a one-shot response sender
HasResponse(op) == op # "broadcast"

\* messages that all carry the response sender of the first call
Message_SharedResponse(c, op, a) ==
    [variant |-> Variant(op), view |-> a.view,
     parent |-> <<a.pview, a.pdigest>>,
     payload |-> a.payload, block |-> a.block, call |-> 1]

\* the message a call builds; `call` names its response channel
Message(c, op, a) ==
    [variant |-> Variant(op), view |-> a.view, parent |-> <<a.pview, a.pdigest>>,
     payload |-> a.payload, block |-> a.block, call |-> c]

\* values the application may answer a request with
ReplyValues(variant) ==
    CASE variant \in {"Genesis", "Propose", "Ancestry"} -> Digests
      [] variant = "Verify" -> {"true", "false"}
      [] variant \in {"Finalized", "Seeded"} -> {"unit"}
      [] OTHER -> {}

NoRet == [kind |-> "none", value |-> "-"]
UnitRet == [kind |-> "unit", value |-> "-"]
ReceiverRet == [kind |-> "receiver", value |-> "-"]

IdleCall ==
    [op |-> "none", view |-> 0, pview |-> 0, pdigest |-> "-", payload |-> "-",
     block |-> "-", pc |-> "idle", path |-> "none", ret |-> NoRet,
     warn |-> "none", closedAtCall |-> FALSE, stopAtCall |-> FALSE]

NoReply == [st |-> "unused", value |-> "-"]

\* Sender::poll_ready: Err once the receiver is gone, Pending while this
\* sender is parked
poll_ready(isClosed, isParked) ==
    IF isClosed THEN "Err" ELSE IF isParked THEN "Pending" ELSE "Ok"

\* Sender::poll_flush: a disconnected receiver counts as flushed
poll_flush(isClosed, isParked) ==
    IF poll_ready(isClosed, isParked) = "Err" THEN "Ok"
    ELSE poll_ready(isClosed, isParked)

\* do_send_b: the sender parks itself when the queued messages, its own
\* included, exceed the buffer
park_self(numMessages) == numMessages > MailboxSize

\* a select that only waits for the send
select_WithoutStop(sendRes, stopReady) == sendRes

\* a select with a third branch: a deadline that fires on a send still pending
select_WithDeadline(sendRes, stopReady) ==
    IF sendRes # "Pending" THEN sendRes ELSE "Stop"

\* select! { result = sender.send(..) => .., _ = &mut stopped => .. }:
\* branches are polled in the order written
select(sendRes, stopReady) ==
    IF sendRes # "Pending" THEN sendRes
    ELSE IF stopReady THEN "Stop" ELSE "Pending"

\* genesis without the early return on a closed mailbox
Mailbox_genesis_ClosedFallsThrough(cl, branch) ==
    CASE branch = "Ok" -> [cl EXCEPT !.pc = "await", !.path = "sent"]
      [] branch = "Err" ->
            [cl EXCEPT !.pc = "await", !.path = "closed",
                       !.warn = "application mailbox closed; returning genesis digest"]
      [] branch = "Stop" ->
            [cl EXCEPT !.pc = "done", !.path = "stop",
                       !.warn = "application shutting down; returning genesis digest",
                       !.ret = [kind |-> "value", value |-> GenesisDigest]]

\* Mailbox::genesis from the outcome of its select
Mailbox_genesis(cl, branch) ==
    CASE branch = "Ok" -> [cl EXCEPT !.pc = "await", !.path = "sent"]
      [] branch = "Err" ->
            [cl EXCEPT !.pc = "done", !.path = "closed",
                       !.warn = "application mailbox closed; returning genesis digest",
                       !.ret = [kind |-> "value", value |-> GenesisDigest]]
      [] branch = "Stop" ->
            [cl EXCEPT !.pc = "done", !.path = "stop",
                       !.warn = "application shutting down; returning genesis digest",
                       !.ret = [kind |-> "value", value |-> GenesisDigest]]

\* propose that hands back the original receiver on a closed mailbox
Mailbox_propose_ClosedReturnsReceiver(cl, branch) ==
    CASE branch = "Ok" ->
            [cl EXCEPT !.pc = "done", !.path = "sent", !.ret = ReceiverRet]
      [] branch = "Err" ->
            [cl EXCEPT !.pc = "done", !.path = "closed",
                       !.warn = "application mailbox closed; proposing parent digest",
                       !.ret = ReceiverRet]
      [] branch = "Stop" ->
            [cl EXCEPT !.pc = "done", !.path = "stop",
                       !.warn = "application shutting down; proposing parent digest",
                       !.ret = [kind |-> "fallback", value |-> cl.pdigest]]

\* Mailbox::propose from the outcome of its select
Mailbox_propose(cl, branch) ==
    CASE branch = "Ok" ->
            [cl EXCEPT !.pc = "done", !.path = "sent", !.ret = ReceiverRet]
      [] branch = "Err" ->
            [cl EXCEPT !.pc = "done", !.path = "closed",
                       !.warn = "application mailbox closed; proposing parent digest",
                       !.ret = [kind |-> "fallback", value |-> cl.pdigest]]
      [] branch = "Stop" ->
            [cl EXCEPT !.pc = "done", !.path = "stop",
                       !.warn = "application shutting down; proposing parent digest",
                       !.ret = [kind |-> "fallback", value |-> cl.pdigest]]

\* verify whose stop branch accepts the payload
Mailbox_verify_StopAccepts(cl, branch) ==
    CASE branch = "Ok" ->
            [cl EXCEPT !.pc = "done", !.path = "sent", !.ret = ReceiverRet]
      [] branch = "Err" ->
            [cl EXCEPT !.pc = "done", !.path = "closed",
                       !.warn = "application mailbox closed; verify returns false",
                       !.ret = [kind |-> "fallback", value |-> "false"]]
      [] branch = "Stop" ->
            [cl EXCEPT !.pc = "done", !.path = "stop",
                       !.warn = "application shutting down; verify returns false",
                       !.ret = [kind |-> "fallback", value |-> "true"]]

\* Mailbox::verify from the outcome of its select
Mailbox_verify(cl, branch) ==
    CASE branch = "Ok" ->
            [cl EXCEPT !.pc = "done", !.path = "sent", !.ret = ReceiverRet]
      [] branch = "Err" ->
            [cl EXCEPT !.pc = "done", !.path = "closed",
                       !.warn = "application mailbox closed; verify returns false",
                       !.ret = [kind |-> "fallback", value |-> "false"]]
      [] branch = "Stop" ->
            [cl EXCEPT !.pc = "done", !.path = "stop",
                       !.warn = "application shutting down; verify returns false",
                       !.ret = [kind |-> "fallback", value |-> "false"]]

\* Mailbox::broadcast from the outcome of its select
Mailbox_broadcast(cl, branch) ==
    CASE branch = "Ok" ->
            [cl EXCEPT !.pc = "done", !.path = "sent", !.ret = UnitRet]
      [] branch = "Err" ->
            [cl EXCEPT !.pc = "done", !.path = "closed", !.ret = UnitRet,
                       !.warn = "application mailbox closed; broadcast dropped"]
      [] branch = "Stop" ->
            [cl EXCEPT !.pc = "done", !.path = "stop", !.ret = UnitRet,
                       !.warn = "application shutting down; broadcast dropped"]

\* Mailbox::ancestry from the outcome of its select
Mailbox_ancestry(cl, branch) ==
    CASE branch = "Ok" ->
            [cl EXCEPT !.pc = "done", !.path = "sent", !.ret = UnitRet]
      [] branch = "Err" ->
            [cl EXCEPT !.pc = "done", !.path = "closed", !.ret = UnitRet,
                       !.warn = "application mailbox closed; ancestry dropped"]
      [] branch = "Stop" ->
            [cl EXCEPT !.pc = "done", !.path = "stop", !.ret = UnitRet,
                       !.warn = "application shutting down; ancestry dropped"]

\* seeded that waits for an answer after its send, as report does
Mailbox_seeded_AwaitsAck(cl, branch) ==
    CASE branch = "Ok" -> [cl EXCEPT !.pc = "await", !.path = "sent"]
      [] branch = "Err" ->
            [cl EXCEPT !.pc = "done", !.path = "closed", !.ret = UnitRet,
                       !.warn = "application mailbox closed; seeded dropped"]
      [] branch = "Stop" ->
            [cl EXCEPT !.pc = "done", !.path = "stop", !.ret = UnitRet,
                       !.warn = "application shutting down; seeded dropped"]

\* seeded with a stop branch that returns without logging
Mailbox_seeded_SilentStop(cl, branch) ==
    CASE branch = "Ok" ->
            [cl EXCEPT !.pc = "done", !.path = "sent", !.ret = UnitRet]
      [] branch = "Err" ->
            [cl EXCEPT !.pc = "done", !.path = "closed", !.ret = UnitRet,
                       !.warn = "application mailbox closed; seeded dropped"]
      [] branch = "Stop" ->
            [cl EXCEPT !.pc = "done", !.path = "stop", !.ret = UnitRet]

\* Mailbox::seeded from the outcome of its select
Mailbox_seeded(cl, branch) ==
    CASE branch = "Ok" ->
            [cl EXCEPT !.pc = "done", !.path = "sent", !.ret = UnitRet]
      [] branch = "Err" ->
            [cl EXCEPT !.pc = "done", !.path = "closed", !.ret = UnitRet,
                       !.warn = "application mailbox closed; seeded dropped"]
      [] branch = "Stop" ->
            [cl EXCEPT !.pc = "done", !.path = "stop", !.ret = UnitRet,
                       !.warn = "application shutting down; seeded dropped"]

\* Mailbox::report from the outcome of its first select
Mailbox_report(cl, branch) ==
    CASE branch = "Ok" -> [cl EXCEPT !.pc = "await", !.path = "sent"]
      [] branch = "Err" ->
            [cl EXCEPT !.pc = "done", !.path = "closed", !.ret = UnitRet,
                       !.warn = "application mailbox closed; finalized dropped"]
      [] branch = "Stop" ->
            [cl EXCEPT !.pc = "done", !.path = "stop", !.ret = UnitRet,
                       !.warn = "application shutting down; finalized dropped"]

\* the call after one poll of its select; it stays suspended on Pending
AfterSelect(cl, branch) ==
    IF branch = "Pending" THEN [cl EXCEPT !.pc = "send"]
    ELSE CASE cl.op = "genesis" -> Mailbox_genesis(cl, branch)
           [] cl.op = "propose" -> Mailbox_propose(cl, branch)
           [] cl.op = "verify" -> Mailbox_verify(cl, branch)
           [] cl.op = "broadcast" -> Mailbox_broadcast(cl, branch)
           [] cl.op = "ancestry" -> Mailbox_ancestry(cl, branch)
           [] cl.op = "seeded" -> Mailbox_seeded(cl, branch)
           [] cl.op = "report" -> Mailbox_report(cl, branch)

\* Mailbox::genesis at `receiver.await.unwrap_or_else(..)`
Mailbox_genesis_await(cl, rp) ==
    CASE rp.st = "sent" ->
            [cl EXCEPT !.pc = "done", !.path = "replied",
                       !.ret = [kind |-> "value", value |-> rp.value]]
      [] rp.st = "canceled" ->
            [cl EXCEPT !.pc = "done", !.path = "reply_dropped",
                       !.warn = "application actor dropped genesis response; returning genesis digest",
                       !.ret = [kind |-> "value", value |-> GenesisDigest]]
      [] OTHER -> cl

\* a report that does not wait for the application's answer
Mailbox_report_await_NoWait(cl, rp, stopReady) ==
    CASE rp.st = "sent" ->
            [cl EXCEPT !.pc = "done", !.path = "replied", !.ret = UnitRet]
      [] rp.st = "canceled" ->
            [cl EXCEPT !.pc = "done", !.path = "reply_dropped", !.ret = UnitRet]
      [] rp.st = "pending" ->
            [cl EXCEPT !.pc = "done", !.path = "stop_await", !.ret = UnitRet]
      [] OTHER -> cl

\* Mailbox::report at select! { _ = receiver => {}, _ = &mut stopped => {} }
Mailbox_report_await(cl, rp, stopReady) ==
    CASE rp.st = "sent" ->
            [cl EXCEPT !.pc = "done", !.path = "replied", !.ret = UnitRet]
      [] rp.st = "canceled" ->
            [cl EXCEPT !.pc = "done", !.path = "reply_dropped", !.ret = UnitRet]
      [] rp.st = "pending" /\ stopReady ->
            [cl EXCEPT !.pc = "done", !.path = "stop_await", !.ret = UnitRet]
      [] OTHER -> cl

MailboxInit ==
    /\ closed = FALSE
    /\ queue = <<>>
    /\ parked = [c \in Calls |-> FALSE]
    /\ parkedQueue = <<>>
    /\ call = [c \in Calls |-> IdleCall]
    /\ reply = [c \in Calls |-> NoReply]
    /\ received = <<>>

\* a sender that puts its message ahead of the waiting ones
queue_push_Front(q, m) == <<m>> \o q

\* sender.send(..) on an open channel: the message joins the single queue of
\* the channel, whichever clone of the sender it goes through
queue_push(q, m) == Append(q, m)

\* a mailbox operation is called and polled for the first time: the message
\* goes through a fresh clone of the sender, raced against the stop signal
\* (call slots are interchangeable, so they are taken in index order)
CallStart(c, op, a) ==
    /\ call[c].pc = "idle"
    /\ \A b \in Calls : b < c => call[b].pc # "idle"
    /\ LET ready == poll_ready(closed, FALSE)
           enq == ready = "Ok"
           q1 == IF enq THEN queue_push(queue, Message(c, op, a)) ELSE queue
           park == enq /\ park_self(Len(q1))
           sendRes == IF enq THEN poll_flush(closed, park) ELSE "Err"
           cl == [IdleCall EXCEPT !.op = op, !.view = a.view,
                                  !.pview = a.pview, !.pdigest = a.pdigest,
                                  !.payload = a.payload, !.block = a.block,
                                  !.closedAtCall = closed,
                                  !.stopAtCall = (stopSig # "pending")]
       IN /\ queue' = q1
          /\ parked' = [parked EXCEPT ![c] = park]
          /\ parkedQueue' = IF park THEN Append(parkedQueue, c)
                            ELSE parkedQueue
          /\ reply' = [reply EXCEPT ![c] =
                IF ~HasResponse(op) THEN NoReply
                ELSE IF enq THEN [st |-> "pending", value |-> "-"]
                     ELSE [st |-> "canceled", value |-> "-"]]
          /\ call' = [call EXCEPT ![c] =
                AfterSelect(cl, select(sendRes, stopSig # "pending"))]
    /\ UNCHANGED <<typesVars, stopVars, engineVars, closed, received>>

\* a call suspended in its select is polled again
CallPollSend(c) ==
    /\ call[c].pc = "send"
    /\ LET branch == select(poll_flush(closed, parked[c]), stopSig # "pending")
       IN /\ branch # "Pending"
          /\ call' = [call EXCEPT ![c] = AfterSelect(call[c], branch)]
    /\ UNCHANGED <<typesVars, stopVars, engineVars, closed, queue, parked, parkedQueue,
                   reply, received>>

\* a call waiting for the application's answer is polled again
CallPollReply(c) ==
    /\ call[c].pc = "await"
    /\ LET cl == IF call[c].op = "genesis"
                 THEN Mailbox_genesis_await(call[c], reply[c])
                 ELSE Mailbox_report_await(call[c], reply[c],
                                           stopSig # "pending")
       IN /\ cl.pc = "done"
          /\ call' = [call EXCEPT ![c] = cl]
    /\ UNCHANGED <<typesVars, stopVars, engineVars, closed, queue, parked, parkedQueue,
                   reply, received>>

\* the application takes the oldest message; the channel unparks one sender
AppDequeue ==
    /\ ~closed
    /\ queue # <<>>
    /\ received' = Append(received, Head(queue))
    /\ queue' = Tail(queue)
    /\ IF parkedQueue # <<>>
       THEN /\ parked' = [parked EXCEPT ![Head(parkedQueue)] = FALSE]
            /\ parkedQueue' = Tail(parkedQueue)
       ELSE UNCHANGED <<parked, parkedQueue>>
    /\ UNCHANGED <<typesVars, stopVars, engineVars, closed, call, reply>>

Held(c) ==
    /\ reply[c].st = "pending"
    /\ \E i \in 1..Len(received) : received[i].call = c

\* the application answers a request it has dequeued
AppReply(c, v) ==
    /\ Held(c)
    /\ v \in ReplyValues(Variant(call[c].op))
    /\ reply' = [reply EXCEPT ![c] = [st |-> "sent", value |-> v]]
    /\ UNCHANGED <<typesVars, stopVars, engineVars, closed, queue, parked, parkedQueue,
                   call, received>>

\* the application drops the response sender of a request without answering
AppDropReply(c) ==
    /\ Held(c)
    /\ reply' = [reply EXCEPT ![c] = [st |-> "canceled", value |-> "-"]]
    /\ UNCHANGED <<typesVars, stopVars, engineVars, closed, queue, parked, parkedQueue,
                   call, received>>

\* the application drops its receiver: queued messages are dropped with
\* their response senders and every parked sender is woken
AppClose ==
    /\ ~closed
    /\ closed' = TRUE
    /\ queue' = <<>>
    /\ reply' = [c \in Calls |->
            IF reply[c].st = "pending"
               /\ \E i \in 1..Len(queue) : queue[i].call = c
            THEN [st |-> "canceled", value |-> "-"]
            ELSE reply[c]]
    /\ parked' = [c \in Calls |-> FALSE]
    /\ parkedQueue' = <<>>
    /\ UNCHANGED <<typesVars, stopVars, engineVars, call, received>>

CallStep(c) == CallPollSend(c) \/ CallPollReply(c)

MailboxNext ==
    \/ \E c \in Calls, op \in Ops : \E a \in ArgsOf(op) : CallStart(c, op, a)
    \/ \E c \in Calls : CallPollSend(c)
    \/ \E c \in Calls : CallPollReply(c)
    \/ AppDequeue
    \/ \E c \in Calls : \E v \in Digests \cup {"true", "false", "unit"} :
            AppReply(c, v)
    \/ \E c \in Calls : AppDropReply(c)
    \/ AppClose
    \/ \E v \in 0..MaxStopValue : StopRaise(v)
    \/ StopDrop

----------------------------------------------------------------------------
(* State entities and their codec: types/src/casino/economy.rs *)

\* sample values of an entity are built from the seeds 0..MaxSeed
MaxSeed == 1

\* public keys are 1..MaxKeys
MaxKeys == 3

\* a VaultRegistry in hand lists at most MaxVaults keys
MaxVaults == 3

\* how many times a decoded value is taken over and encoded again
MaxRounds == 1

\* stakers of the pool
NumStakers == 2

\* most voting power one staker deposits
MaxStake == 2

\* most reward units distributed in all
MaxReward == 3

\* most claims made in all
MaxClaims == 6

\* STAKING_REWARD_SCALE, 10^18 in the program, brought down to one decimal
\* digit so that the products stay within 32-bit integers
STAKING_REWARD_SCALE == 10

\* seconds the runtime's clock is followed for
MaxClock == 12

\* const UPDATE_INTERVAL: Duration = Duration::from_secs(5)
UPDATE_INTERVAL == 5

\* most 8-byte words of other data that follow an encoding in its reader
MaxFollow == 2

\* a u64 is modelled on WordBits bits where its arithmetic is at stake
WordBits == 8
U64_MAX == 2 ^ WordBits - 1

\* const SYNCER_ACTIVITY_TIMEOUT_MULTIPLIER: u64 = 10
SYNCER_ACTIVITY_TIMEOUT_MULTIPLIER == 10

\* configured bases of the progressive jackpots and the bootstrap price of
\* the pool (casino constants; their values are not part of economy.rs)
THREE_CARD_PROGRESSIVE_BASE_JACKPOT == 5
UTH_PROGRESSIVE_BASE_JACKPOT == 7
AMM_BOOTSTRAP_PRICE_VUSDT_NUMERATOR == 2
AMM_BOOTSTRAP_PRICE_RNG_DENOMINATOR == 3

\* Vec::<PublicKey>::read_range(reader, 0..=100_000)
MAX_VAULTS == 100000

\* n bytes of zero
Zero(n) == [i \in 1..n |-> 0]

\* the size-byte image of the unsigned number n < 2^24, as the primitive
\* write emits it (most significant byte first)
be_bytes(n, size) ==
    [i \in 1..size |->
        CASE i = size -> n % 256
          [] i = size - 1 -> (n \div 256) % 256
          [] i = size - 2 -> (n \div 65536) % 256
          [] OTHER -> 0]

U16(n) == be_bytes(n, 2)
U64(n) == be_bytes(n, 8)
U128(n) == be_bytes(n, 16)

\* the 16-byte two's complement image of a signed number, -2^23 <= n < 2^23
I128(n) ==
    IF n >= 0 THEN be_bytes(n, 16)
    ELSE [i \in 1..16 |->
            IF i <= 13 THEN 255 ELSE be_bytes(16777216 + n, 16)[i]]

\* a >= b for two unsigned images of the same size
RECURSIVE GeqFrom(_, _, _)
GeqFrom(a, b, i) ==
    IF i > Len(a) THEN TRUE
    ELSE IF a[i] # b[i] THEN a[i] > b[i]
    ELSE GeqFrom(a, b, i + 1)

Geq(a, b) == GeqFrom(a, b, 1)

\* a < b for two public keys (Ord on the key bytes)
KeyLess(a, b) == a # b /\ Geq(b, a)

\* PublicKey: 32 bytes
PublicKeyOf(k) == be_bytes(k, 32)
Keys == {PublicKeyOf(k) : k \in 1..MaxKeys}

\* unsigned varint of a length: seven bits a byte, least significant group
\* first, the top bit set on every byte but the last
RECURSIVE varint_write(_)
varint_write(n) ==
    IF n < 128 THEN <<n>>
    ELSE <<128 + (n % 128)>> \o varint_write(n \div 128)

\* reading a varint off the front of buf: [ok, value, rest]
RECURSIVE varint_read_from(_, _, _)
varint_read_from(buf, acc, mult) ==
    IF buf = <<>> THEN [ok |-> FALSE, value |-> 0, rest |-> <<>>]
    ELSE IF Head(buf) < 128
         THEN [ok |-> TRUE, value |-> acc + Head(buf) * mult,
               rest |-> Tail(buf)]
         ELSE IF mult >= 2097152
              THEN [ok |-> FALSE, value |-> 0, rest |-> <<>>]
              ELSE varint_read_from(Tail(buf), acc + (Head(buf) - 128) * mult,
                                    mult * 128)

varint_read(buf) == varint_read_from(buf, 0, 1)

\* struct HouseState: its fields and the size of each field's type
HouseState_fields ==
    <<<<"current_epoch", 8>>,
      <<"epoch_start_ts", 8>>,
      <<"net_pnl", 16>>,
      <<"total_staked_amount", 8>>,
      <<"total_voting_power", 16>>,
      <<"accumulated_fees", 8>>,
      <<"total_burned", 8>>,
      <<"total_issuance", 8>>,
      <<"total_vusdt_debt", 8>>,
      <<"stability_fees_accrued", 8>>,
      <<"recovery_pool_vusdt", 8>>,
      <<"recovery_pool_retired", 8>>,
      <<"three_card_progressive_jackpot", 8>>,
      <<"uth_progressive_jackpot", 8>>,
      <<"staking_reward_per_voting_power_x18", 16>>,
      <<"staking_reward_pool", 8>>,
      <<"staking_reward_carry", 8>>>>

\* struct Staker: its fields and the size of each field's type
Staker_fields ==
    <<<<"balance", 8>>,
      <<"unlock_ts", 8>>,
      <<"last_claim_epoch", 8>>,
      <<"voting_power", 16>>,
      <<"reward_debt_x18", 16>>,
      <<"unclaimed_rewards", 8>>>>

\* struct Vault: its fields and the size of each field's type
Vault_fields ==
    <<<<"collateral_rng", 8>>,
      <<"debt_vusdt", 8>>,
      <<"last_accrual_ts", 8>>>>

\* struct SavingsPool: its fields and the size of each field's type
SavingsPool_fields ==
    <<<<"total_deposits", 8>>,
      <<"reward_per_share_x18", 16>>,
      <<"pending_rewards", 8>>,
      <<"total_rewards_accrued", 8>>,
      <<"total_rewards_paid", 8>>>>

\* struct SavingsBalance: its fields and the size of each field's type
SavingsBalance_fields ==
    <<<<"deposit_balance", 8>>,
      <<"reward_debt_x18", 16>>,
      <<"unclaimed_rewards", 8>>>>

\* struct AmmPool: its fields and the size of each field's type
AmmPool_fields ==
    <<<<"reserve_rng", 8>>,
      <<"reserve_vusdt", 8>>,
      <<"total_shares", 8>>,
      <<"fee_basis_points", 2>>,
      <<"sell_tax_basis_points", 2>>,
      <<"bootstrap_price_vusdt_numerator", 8>>,
      <<"bootstrap_price_rng_denominator", 8>>>>

\* struct PolicyState: its fields and the size of each field's type
PolicyState_fields ==
    <<<<"sell_tax_min_bps", 2>>,
      <<"sell_tax_mid_bps", 2>>,
      <<"sell_tax_max_bps", 2>>,
      <<"sell_tax_outflow_low_bps", 2>>,
      <<"sell_tax_outflow_mid_bps", 2>>,
      <<"max_daily_sell_bps_balance", 2>>,
      <<"max_daily_sell_bps_pool", 2>>,
      <<"max_daily_buy_bps_balance", 2>>,
      <<"max_daily_buy_bps_pool", 2>>,
      <<"max_ltv_bps_new", 2>>,
      <<"max_ltv_bps_mature", 2>>,
      <<"liquidation_threshold_bps", 2>>,
      <<"liquidation_target_bps", 2>>,
      <<"liquidation_penalty_bps", 2>>,
      <<"liquidation_reward_bps", 2>>,
      <<"liquidation_stability_bps", 2>>,
      <<"stability_fee_apr_bps", 2>>,
      <<"debt_ceiling_bps", 2>>,
      <<"credit_immediate_bps", 2>>,
      <<"credit_vest_secs", 8>>,
      <<"credit_expiry_secs", 8>>>>

\* struct TreasuryState: its fields and the size of each field's type
TreasuryState_fields ==
    <<<<"auction_allocation_rng", 8>>,
      <<"liquidity_reserve_rng", 8>>,
      <<"bonus_pool_rng", 8>>,
      <<"player_allocation_rng", 8>>,
      <<"treasury_allocation_rng", 8>>,
      <<"team_allocation_rng", 8>>>>

\* a mandatory field read like a trailing one, defaulting to zero
Req_Defaulting(name, size) ==
    [name |-> name, size |-> size, opt |-> TRUE, dflt |-> Zero(size)]

\* a trailing field read like a mandatory one
Opt_Mandatory(name, size, d) ==
    [name |-> name, size |-> size, opt |-> FALSE, dflt |-> d]

\* one step of a read_cfg: `T::read(reader)?` for a field that must be
\* there, `if reader.remaining() >= SIZE { T::read(reader)? } else { d }` for
\* a trailing one
Req(name, size) == [name |-> name, size |-> size, opt |-> FALSE, dflt |-> <<>>]
Opt(name, size, d) == [name |-> name, size |-> size, opt |-> TRUE, dflt |-> d]

\* impl Write for HouseState: every field, in declaration order
HouseState_write(x) ==
    x.current_epoch \o x.epoch_start_ts \o x.net_pnl \o
    x.total_staked_amount \o x.total_voting_power \o x.accumulated_fees \o
    x.total_burned \o x.total_issuance \o x.total_vusdt_debt \o
    x.stability_fees_accrued \o x.recovery_pool_vusdt \o
    x.recovery_pool_retired \o x.three_card_progressive_jackpot \o
    x.uth_progressive_jackpot \o x.staking_reward_per_voting_power_x18 \o
    x.staking_reward_pool \o x.staking_reward_carry

\* a read that defaults the jackpots to zero like the fields around them
HouseState_read_ZeroJackpots ==
    <<Req("current_epoch", 8),
      Req("epoch_start_ts", 8),
      Req("net_pnl", 16),
      Req("total_staked_amount", 8),
      Req("total_voting_power", 16),
      Req("accumulated_fees", 8),
      Req("total_burned", 8),
      Req("total_issuance", 8),
      Opt("total_vusdt_debt", 8, Zero(8)),
      Opt("stability_fees_accrued", 8, Zero(8)),
      Opt("recovery_pool_vusdt", 8, Zero(8)),
      Opt("recovery_pool_retired", 8, Zero(8)),
      Opt("three_card_progressive_jackpot", 8, Zero(8)),
      Opt("uth_progressive_jackpot", 8, Zero(8)),
      Opt("staking_reward_per_voting_power_x18", 16, Zero(16)),
      Opt("staking_reward_pool", 8, Zero(8)),
      Opt("staking_reward_carry", 8, Zero(8))>>

\* impl Read for HouseState: the fields in the order they are read
HouseState_read ==
    <<Req("current_epoch", 8),
      Req("epoch_start_ts", 8),
      Req("net_pnl", 16),
      Req("total_staked_amount", 8),
      Req("total_voting_power", 16),
      Req("accumulated_fees", 8),
      Req("total_burned", 8),
      Req("total_issuance", 8),
      Opt("total_vusdt_debt", 8, Zero(8)),
      Opt("stability_fees_accrued", 8, Zero(8)),
      Opt("recovery_pool_vusdt", 8, Zero(8)),
      Opt("recovery_pool_retired", 8, Zero(8)),
      Opt("three_card_progressive_jackpot", 8,
          U64(THREE_CARD_PROGRESSIVE_BASE_JACKPOT)),
      Opt("uth_progressive_jackpot", 8, U64(UTH_PROGRESSIVE_BASE_JACKPOT)),
      Opt("staking_reward_per_voting_power_x18", 16, Zero(16)),
      Opt("staking_reward_pool", 8, Zero(8)),
      Opt("staking_reward_carry", 8, Zero(8))>>

\* the size of a HouseState without its staking accumulators
HouseState_encode_size_Legacy(x) ==
    8 + 8 + 16 + 8 + 16 + 8 + 8 + 8 + 8 + 8 + 8 + 8 + 8 + 8

\* impl EncodeSize for HouseState: the sum of the fields' sizes
HouseState_encode_size(x) ==
    8 + 8 + 16 + 8 + 16 + 8 + 8 + 8 + 8 + 8 + 8 + 8 + 8 + 8 + 16 + 8 + 8

\* impl Write for Staker: every field, in declaration order
Staker_write(x) ==
    x.balance \o x.unlock_ts \o x.last_claim_epoch \o x.voting_power \o
    x.reward_debt_x18 \o x.unclaimed_rewards

\* impl Read for Staker: the fields in the order they are read
Staker_read ==
    <<Req("balance", 8),
      Req("unlock_ts", 8),
      Req("last_claim_epoch", 8),
      Req("voting_power", 16),
      Opt("reward_debt_x18", 16, Zero(16)),
      Opt("unclaimed_rewards", 8, Zero(8))>>

\* impl EncodeSize for Staker: the sum of the fields' sizes
Staker_encode_size(x) ==
    8 + 8 + 8 + 16 + 16 + 8

\* impl Write for Vault: every field, in declaration order
Vault_write(x) ==
    x.collateral_rng \o x.debt_vusdt \o x.last_accrual_ts

\* impl Read for Vault: the fields in the order they are read
Vault_read ==
    <<Req("collateral_rng", 8),
      Req("debt_vusdt", 8),
      Opt("last_accrual_ts", 8, Zero(8))>>

\* impl EncodeSize for Vault: the sum of the fields' sizes
Vault_encode_size(x) ==
    8 + 8 + 8

\* impl Write for SavingsPool: every field, in declaration order
SavingsPool_write(x) ==
    x.total_deposits \o x.reward_per_share_x18 \o x.pending_rewards \o
    x.total_rewards_accrued \o x.total_rewards_paid

\* impl Read for SavingsPool: the fields in the order they are read
SavingsPool_read ==
    <<Req("total_deposits", 8),
      Opt("reward_per_share_x18", 16, Zero(16)),
      Opt("pending_rewards", 8, Zero(8)),
      Opt("total_rewards_accrued", 8, Zero(8)),
      Opt("total_rewards_paid", 8, Zero(8))>>

\* impl EncodeSize for SavingsPool: the sum of the fields' sizes
SavingsPool_encode_size(x) ==
    8 + 16 + 8 + 8 + 8

\* impl Write for SavingsBalance: every field, in declaration order
SavingsBalance_write(x) ==
    x.deposit_balance \o x.reward_debt_x18 \o x.unclaimed_rewards

\* impl Read for SavingsBalance: the fields in the order they are read
SavingsBalance_read ==
    <<Req("deposit_balance", 8),
      Opt("reward_debt_x18", 16, Zero(16)),
      Opt("unclaimed_rewards", 8, Zero(8))>>

\* impl EncodeSize for SavingsBalance: the sum of the fields' sizes
SavingsBalance_encode_size(x) ==
    8 + 16 + 8

\* a write that emits sell_tax_basis_points before fee_basis_points
AmmPool_write_Swapped(x) ==
    x.reserve_rng \o x.reserve_vusdt \o x.total_shares \o
    x.sell_tax_basis_points \o x.fee_basis_points \o
    x.bootstrap_price_vusdt_numerator \o x.bootstrap_price_rng_denominator

\* impl Write for AmmPool: every field, in declaration order
AmmPool_write(x) ==
    x.reserve_rng \o x.reserve_vusdt \o x.total_shares \o
    x.fee_basis_points \o x.sell_tax_basis_points \o
    x.bootstrap_price_vusdt_numerator \o x.bootstrap_price_rng_denominator

\* a read that defaults the bootstrap price to zero
AmmPool_read_ZeroDefaults ==
    <<Req("reserve_rng", 8),
      Req("reserve_vusdt", 8),
      Req("total_shares", 8),
      Req("fee_basis_points", 2),
      Req("sell_tax_basis_points", 2),
      Opt("bootstrap_price_vusdt_numerator", 8, Zero(8)),
      Opt("bootstrap_price_rng_denominator", 8, Zero(8))>>

\* impl Read for AmmPool: the fields in the order they are read
AmmPool_read ==
    <<Req("reserve_rng", 8),
      Req("reserve_vusdt", 8),
      Req("total_shares", 8),
      Req("fee_basis_points", 2),
      Req("sell_tax_basis_points", 2),
      Opt("bootstrap_price_vusdt_numerator", 8,
          U64(AMM_BOOTSTRAP_PRICE_VUSDT_NUMERATOR)),
      Opt("bootstrap_price_rng_denominator", 8,
          U64(AMM_BOOTSTRAP_PRICE_RNG_DENOMINATOR))>>

\* impl EncodeSize for AmmPool: the sum of the fields' sizes
AmmPool_encode_size(x) ==
    8 + 8 + 8 + 2 + 2 + 8 + 8

\* impl Write for PolicyState: every field, in declaration order
PolicyState_write(x) ==
    x.sell_tax_min_bps \o x.sell_tax_mid_bps \o x.sell_tax_max_bps \o
    x.sell_tax_outflow_low_bps \o x.sell_tax_outflow_mid_bps \o
    x.max_daily_sell_bps_balance \o x.max_daily_sell_bps_pool \o
    x.max_daily_buy_bps_balance \o x.max_daily_buy_bps_pool \o
    x.max_ltv_bps_new \o x.max_ltv_bps_mature \o
    x.liquidation_threshold_bps \o x.liquidation_target_bps \o
    x.liquidation_penalty_bps \o x.liquidation_reward_bps \o
    x.liquidation_stability_bps \o x.stability_fee_apr_bps \o
    x.debt_ceiling_bps \o x.credit_immediate_bps \o x.credit_vest_secs \o
    x.credit_expiry_secs

\* impl Read for PolicyState: the fields in the order they are read
PolicyState_read ==
    <<Req("sell_tax_min_bps", 2),
      Req("sell_tax_mid_bps", 2),
      Req("sell_tax_max_bps", 2),
      Req("sell_tax_outflow_low_bps", 2),
      Req("sell_tax_outflow_mid_bps", 2),
      Req("max_daily_sell_bps_balance", 2),
      Req("max_daily_sell_bps_pool", 2),
      Req("max_daily_buy_bps_balance", 2),
      Req("max_daily_buy_bps_pool", 2),
      Req("max_ltv_bps_new", 2),
      Req("max_ltv_bps_mature", 2),
      Req("liquidation_threshold_bps", 2),
      Req("liquidation_target_bps", 2),
      Req("liquidation_penalty_bps", 2),
      Req("liquidation_reward_bps", 2),
      Req("liquidation_stability_bps", 2),
      Req("stability_fee_apr_bps", 2),
      Req("debt_ceiling_bps", 2),
      Req("credit_immediate_bps", 2),
      Req("credit_vest_secs", 8),
      Req("credit_expiry_secs", 8)>>

\* impl EncodeSize for PolicyState: the sum of the fields' sizes
PolicyState_encode_size(x) ==
    2 + 2 + 2 + 2 + 2 + 2 + 2 + 2 + 2 + 2 + 2 + 2 + 2 + 2 + 2 + 2 + 2 + 2 +
    2 + 8 + 8

\* impl Write for TreasuryState: every field, in declaration order
TreasuryState_write(x) ==
    x.auction_allocation_rng \o x.liquidity_reserve_rng \o x.bonus_pool_rng \o
    x.player_allocation_rng \o x.treasury_allocation_rng \o
    x.team_allocation_rng

\* impl Read for TreasuryState: the fields in the order they are read
TreasuryState_read ==
    <<Req("auction_allocation_rng", 8),
      Req("liquidity_reserve_rng", 8),
      Req("bonus_pool_rng", 8),
      Req("player_allocation_rng", 8),
      Req("treasury_allocation_rng", 8),
      Req("team_allocation_rng", 8)>>

\* impl EncodeSize for TreasuryState: the sum of the fields' sizes
TreasuryState_encode_size(x) ==
    8 + 8 + 8 + 8 + 8 + 8

\* what a read returns: a value and the unread bytes, or an error
Ok(v, rest) == [ok |-> TRUE, error |-> "none", value |-> v, rest |-> rest]
Err(e) == [ok |-> FALSE, error |-> e, value |-> <<>>, rest |-> <<>>]

\* the bytes consumed before step i of a plan, on a buffer of len bytes: a
\* step consumes its size when that many bytes remain
RECURSIVE Consumed(_, _, _)
Consumed(plan, i, len) ==
    IF i = 1 THEN 0
    ELSE LET before == Consumed(plan, i - 1, len)
         IN  IF len - before >= plan[i - 1].size
             THEN before + plan[i - 1].size
             ELSE before

\* read_cfg of a struct: the steps of its plan in order. A missing
\* mandatory field ends the read with EndOfBuffer; a trailing field the
\* remaining bytes do not cover gets its default and consumes nothing.
read_plan(plan, buf) ==
    LET len == Len(buf)
        at(i) == Consumed(plan, i, len)
        has(i) == len - at(i) >= plan[i].size
        idx(n) == CHOOSE i \in 1..Len(plan) : plan[i].name = n
        names == {plan[i].name : i \in 1..Len(plan)}
        used == Consumed(plan, Len(plan) + 1, len)
    IN  IF \E i \in 1..Len(plan) : ~plan[i].opt /\ ~has(i)
        THEN Err("EndOfBuffer")
        ELSE Ok([n \in names |->
                    IF has(idx(n))
                    THEN SubSeq(buf, at(idx(n)) + 1,
                                at(idx(n)) + plan[idx(n)].size)
                    ELSE plan[idx(n)].dflt],
                SubSeq(buf, used + 1, len))

\* the elements of a list, one after the other
RECURSIVE Flatten(_)
Flatten(s) == IF s = <<>> THEN <<>> ELSE Head(s) \o Flatten(Tail(s))

\* slice::sort_unstable on keys: ascending
RECURSIVE sort_unstable(_)
sort_unstable(s) ==
    IF s = <<>> THEN <<>>
    ELSE LET least == CHOOSE i \in 1..Len(s) :
                        \A j \in 1..Len(s) : Geq(s[j], s[i])
         IN  <<s[least]>> \o
             sort_unstable(SubSeq(s, 1, least - 1)
                           \o SubSeq(s, least + 1, Len(s)))

\* Vec::dedup: drops every element equal to the one before it
RECURSIVE dedup(_)
dedup(s) ==
    IF Len(s) <= 1 THEN s
    ELSE IF s[1] = s[2] THEN dedup(Tail(s))
    ELSE <<s[1]>> \o dedup(Tail(s))

\* impl Write for VaultRegistry: the length, then every key
VaultRegistry_write(x) == varint_write(Len(x.vaults)) \o Flatten(x.vaults)

\* a read that drops adjacent repeats without sorting first
VaultRegistry_read_Unsorted(buf) ==
    LET n == varint_read(buf)
    IN  IF ~n.ok THEN Err("EndOfBuffer")
        ELSE IF n.value > MAX_VAULTS THEN Err("InvalidLength")
        ELSE IF Len(n.rest) < 32 * n.value THEN Err("EndOfBuffer")
        ELSE LET vaults == [i \in 1..n.value |->
                                SubSeq(n.rest, 32 * (i - 1) + 1, 32 * i)]
             IN  Ok([vaults |-> dedup(vaults)],
                    SubSeq(n.rest, 32 * n.value + 1, Len(n.rest)))

\* a read whose range leaves out its upper end
VaultRegistry_read_Exclusive(buf) ==
    LET n == varint_read(buf)
    IN  IF ~n.ok THEN Err("EndOfBuffer")
        ELSE IF n.value >= MAX_VAULTS THEN Err("InvalidLength")
        ELSE IF Len(n.rest) < 32 * n.value THEN Err("EndOfBuffer")
        ELSE LET vaults == [i \in 1..n.value |->
                                SubSeq(n.rest, 32 * (i - 1) + 1, 32 * i)]
             IN  Ok([vaults |-> dedup(sort_unstable(vaults))],
                    SubSeq(n.rest, 32 * n.value + 1, Len(n.rest)))

\* impl Read for VaultRegistry: read_range(0..=100_000), sort_unstable, dedup
VaultRegistry_read(buf) ==
    LET n == varint_read(buf)
    IN  IF ~n.ok THEN Err("EndOfBuffer")
        ELSE IF n.value > MAX_VAULTS THEN Err("InvalidLength")
        ELSE IF Len(n.rest) < 32 * n.value THEN Err("EndOfBuffer")
        ELSE LET vaults == [i \in 1..n.value |->
                                SubSeq(n.rest, 32 * (i - 1) + 1, 32 * i)]
             IN  Ok([vaults |-> dedup(sort_unstable(vaults))],
                    SubSeq(n.rest, 32 * n.value + 1, Len(n.rest)))

\* impl EncodeSize for VaultRegistry
VaultRegistry_encode_size(x) ==
    Len(varint_write(Len(x.vaults))) + 32 * Len(x.vaults)

Structs ==
    {"HouseState", "Staker", "Vault", "SavingsPool", "SavingsBalance",
     "AmmPool", "PolicyState", "TreasuryState"}
Types == Structs \cup {"VaultRegistry"}

FieldsOf(t) ==
    CASE t = "HouseState" -> HouseState_fields
      [] t = "Staker" -> Staker_fields
      [] t = "Vault" -> Vault_fields
      [] t = "SavingsPool" -> SavingsPool_fields
      [] t = "SavingsBalance" -> SavingsBalance_fields
      [] t = "AmmPool" -> AmmPool_fields
      [] t = "PolicyState" -> PolicyState_fields
      [] t = "TreasuryState" -> TreasuryState_fields

PlanOf(t) ==
    CASE t = "HouseState" -> HouseState_read
      [] t = "Staker" -> Staker_read
      [] t = "Vault" -> Vault_read
      [] t = "SavingsPool" -> SavingsPool_read
      [] t = "SavingsBalance" -> SavingsBalance_read
      [] t = "AmmPool" -> AmmPool_read
      [] t = "PolicyState" -> PolicyState_read
      [] t = "TreasuryState" -> TreasuryState_read

\* x.write(&mut writer) for a value x of type t
write(t, x) ==
    CASE t = "HouseState" -> HouseState_write(x)
      [] t = "Staker" -> Staker_write(x)
      [] t = "Vault" -> Vault_write(x)
      [] t = "SavingsPool" -> SavingsPool_write(x)
      [] t = "SavingsBalance" -> SavingsBalance_write(x)
      [] t = "VaultRegistry" -> VaultRegistry_write(x)
      [] t = "AmmPool" -> AmmPool_write(x)
      [] t = "PolicyState" -> PolicyState_write(x)
      [] t = "TreasuryState" -> TreasuryState_write(x)

\* what a node that is not the one that wrote this value would add to the
\* bytes: its own mark at the end
encode_on_Stamped(node, t, x) == write(t, x) \o <<node>>

\* x.write(..) as node computes it: write takes &self and the writer and
\* nothing of the node it runs on
encode_on(node, t, x) == write(t, x)

\* x.encode_size() for a value x of type t
encode_size(t, x) ==
    CASE t = "HouseState" -> HouseState_encode_size(x)
      [] t = "Staker" -> Staker_encode_size(x)
      [] t = "Vault" -> Vault_encode_size(x)
      [] t = "SavingsPool" -> SavingsPool_encode_size(x)
      [] t = "SavingsBalance" -> SavingsBalance_encode_size(x)
      [] t = "VaultRegistry" -> VaultRegistry_encode_size(x)
      [] t = "AmmPool" -> AmmPool_encode_size(x)
      [] t = "PolicyState" -> PolicyState_encode_size(x)
      [] t = "TreasuryState" -> TreasuryState_encode_size(x)

\* T::read_cfg(&mut reader, &()) on a reader holding buf
read_cfg(t, buf) ==
    IF t = "VaultRegistry" THEN VaultRegistry_read(buf)
    ELSE read_plan(PlanOf(t), buf)

\* T::decode(buf): read_cfg, and an error when bytes are left over
decode(t, buf) ==
    LET r == read_cfg(t, buf)
    IN  IF r.ok /\ r.rest # <<>> THEN Err("ExtraData") ELSE r

\* the place of field n in the declaration of struct t
FieldIndex(t, n) ==
    CHOOSE i \in 1..Len(FieldsOf(t)) : FieldsOf(t)[i][1] = n
FieldSize(t, n) == FieldsOf(t)[FieldIndex(t, n)][2]
FieldNames(t) == {FieldsOf(t)[i][1] : i \in 1..Len(FieldsOf(t))}

\* the bytes of the first j fields of struct t
RECURSIVE FieldEnd(_, _)
FieldEnd(t, j) ==
    IF j = 0 THEN 0 ELSE FieldEnd(t, j - 1) + FieldsOf(t)[j][2]

\* HouseState::new(start_ts)
HouseState_new(start_ts) ==
    [current_epoch |-> U64(0),
     epoch_start_ts |-> U64(start_ts),
     net_pnl |-> I128(0),
     total_staked_amount |-> U64(0),
     total_voting_power |-> U128(0),
     accumulated_fees |-> U64(0),
     total_burned |-> U64(0),
     total_issuance |-> U64(0),
     total_vusdt_debt |-> U64(0),
     stability_fees_accrued |-> U64(0),
     recovery_pool_vusdt |-> U64(0),
     recovery_pool_retired |-> U64(0),
     three_card_progressive_jackpot |->
        U64(THREE_CARD_PROGRESSIVE_BASE_JACKPOT),
     uth_progressive_jackpot |-> U64(UTH_PROGRESSIVE_BASE_JACKPOT),
     staking_reward_per_voting_power_x18 |-> U128(0),
     staking_reward_pool |-> U64(0),
     staking_reward_carry |-> U64(0)]

\* #[derive(Default)]: every field zero
Default(t) == [n \in FieldNames(t) |-> Zero(FieldSize(t, n))]

\* a value of struct t whose fields all differ: field k holds k + 17 * seed;
\* a HouseState has a negative net_pnl and jackpots at or above their bases
Sample(t, seed) ==
    [n \in FieldNames(t) |->
        CASE t = "HouseState" /\ n = "net_pnl" -> I128(0 - (3 + seed))
          [] t = "HouseState" /\ n = "three_card_progressive_jackpot" ->
                U64(THREE_CARD_PROGRESSIVE_BASE_JACKPOT + seed)
          [] t = "HouseState" /\ n = "uth_progressive_jackpot" ->
                U64(UTH_PROGRESSIVE_BASE_JACKPOT + 2 * seed)
          [] OTHER ->
                be_bytes(FieldIndex(t, n) + 17 * seed, FieldSize(t, n))]

\* lists of at most n keys, in any order, repeats allowed
RECURSIVE KeyLists(_)
KeyLists(n) ==
    IF n = 0 THEN {<<>>}
    ELSE KeyLists(n - 1)
         \cup {Append(s, k) : s \in {l \in KeyLists(n - 1) : Len(l) = n - 1},
                              k \in Keys}

\* the values of type t the program is given to hold
Values(t) ==
    CASE t = "VaultRegistry" -> {[vaults |-> s] : s \in KeyLists(MaxVaults)}
      [] t = "HouseState" ->
            {Sample(t, s) : s \in 0..MaxSeed}
            \cup {HouseState_new(ts) : ts \in 0..MaxSeed}
      [] t = "PolicyState" -> {Sample(t, s) : s \in 0..MaxSeed}
      [] OTHER -> {Sample(t, s) : s \in 0..MaxSeed} \cup {Default(t)}

\* origin: how the program came by the value
NoEntity == [type |-> "None", f |-> <<>>, origin |-> "none"]
\* own: how many of the bytes are the entity's own encoding
NoBuffer ==
    [st |-> "none", type |-> "None", bytes |-> <<>>, prefix |-> 0, own |-> 0]
NoResult ==
    [st |-> "none", ok |-> FALSE, error |-> "none", value |-> <<>>,
     rest |-> <<>>]

\* (a * b) mod 2^WordBits
wrapping_mul(a, b) == (a * b) % (2 ^ WordBits)

\* u64::saturating_mul, on words of WordBits bits
saturating_mul(a, b) == IF a * b > U64_MAX THEN U64_MAX ELSE a * b

\* the sum of f[s] over the stakers 1..n
RECURSIVE SumTo(_, _)
SumTo(f, n) == IF n = 0 THEN 0 ELSE f[n] + SumTo(f, n - 1)

\* acc: staking_reward_per_voting_power_x18, carry: staking_reward_carry,
\* power and debt: voting_power and reward_debt_x18 of each staker,
\* distributed, claimed and claims: the totals so far
NoStaking ==
    [acc |-> 0, carry |-> 0, power |-> [s \in 1..NumStakers |-> 0],
     debt |-> [s \in 1..NumStakers |-> 0], distributed |-> 0, claimed |-> 0,
     claims |-> 0]

\* total_voting_power
total_voting_power(p) == SumTo(p.power, NumStakers)

\* a claim that forgets what the staker was already paid for
accrued_NoDebt(p, s) == p.power[s] * p.acc

\* accrued = voting_power * acc - reward_debt_x18
accrued(p, s) == p.power[s] * p.acc - p.debt[s]

\* the whole units of a staker's accrued rewards
unclaimed_rewards(p, s) == accrued(p, s) \div STAKING_REWARD_SCALE

\* a sleep that is over as soon as it starts
sleep_until_Now(now, d) == now

\* context.sleep(d), started at now: the time at which it is over
sleep_until(now, d) == now + d

\* what sysinfo finds for the pid: no process, or its memory, virtual
\* memory and cpu usage
Samples ==
    {[found |-> FALSE, memory |-> 0, virtual_memory |-> 0, cpu_usage |-> 0]}
    \cup {[found |-> TRUE, memory |-> m, virtual_memory |-> m + 1,
            cpu_usage |-> c] : m \in 1..2, c \in 0..1}

\* the closure update: the three gauges after one refresh
update(sample) ==
    IF sample.found
    THEN [process_rss_bytes |-> sample.memory,
          process_virtual_bytes |-> sample.virtual_memory,
          process_cpu_percent |-> sample.cpu_usage]
    ELSE [process_rss_bytes |-> 0, process_virtual_bytes |-> 0,
          process_cpu_percent |-> 0]

\* pc: "none" (not spawned), "spawned" (not polled yet), "sleeping" or
\* "aborted"; published counts the calls of update, at is the time of the
\* last one, deadline the end of the sleep under way, now the clock
NoMetrics ==
    [pc |-> "none", gauges |-> update([found |-> FALSE]), published |-> 0,
     at |-> 0, deadline |-> 0, now |-> 0]

\* st: "none", "encoded" (bytes are its encoding of value) or "decoded"
\* (value is what it read from bytes, again its encoding of that value)
NoPeer ==
    [st |-> "none", type |-> "None", value |-> <<>>, bytes |-> <<>>,
     ok |-> FALSE, error |-> "none", rest |-> <<>>, again |-> <<>>]

NoConfig ==
    [set |-> FALSE, activity_timeout |-> 0, view_retention_timeout |-> 0]

TypesInit ==
    /\ held = NoEntity
    /\ buffer = NoBuffer
    /\ readResult = NoResult
    /\ codecRound = 0
    /\ marshalConfig = NoConfig
    /\ peer = NoPeer
    /\ metrics = NoMetrics
    /\ staking = NoStaking

\* the program gets hold of a value of a state entity
Hold(t, x) ==
    /\ held = NoEntity
    /\ buffer = NoBuffer
    /\ held' = [type |-> t, f |-> x, origin |-> "given"]
    /\ UNCHANGED <<buffer, readResult, codecRound, marshalConfig>>
    /\ UNCHANGED <<stopVars, engineVars, mailboxVars, peer, metrics, staking>>

\* the held value is encoded: write into a buffer of encode_size bytes
Encode ==
    /\ held # NoEntity
    /\ buffer = NoBuffer
    /\ buffer' = [st |-> "encoded", type |-> held.type,
                  bytes |-> encode_on(1, held.type, held.f),
                  prefix |-> 0,
                  own |-> Len(encode_on(1, held.type, held.f))]
    /\ UNCHANGED <<held, readResult, codecRound, marshalConfig>>
    /\ UNCHANGED <<stopVars, engineVars, mailboxVars, peer, metrics, staking>>

\* the stored bytes are those of an older version, or are damaged: only the
\* first k bytes of the encoding are there
Cut(k) ==
    /\ buffer.st = "encoded"
    /\ readResult = NoResult
    /\ k < Len(buffer.bytes)
    /\ buffer' = [buffer EXCEPT !.st = "cut",
                                !.bytes = SubSeq(buffer.bytes, 1, k),
                                !.own = k]
    /\ UNCHANGED <<held, readResult, codecRound, marshalConfig>>
    /\ UNCHANGED <<stopVars, engineVars, mailboxVars, peer, metrics, staking>>

\* stored bytes of a VaultRegistry that no encode produced: a length prefix
\* n followed by the keys s
Forge(n, s) ==
    /\ held = NoEntity
    /\ buffer = NoBuffer
    /\ buffer' = [st |-> "forged", type |-> "VaultRegistry",
                  bytes |-> varint_write(n) \o Flatten(s),
                  prefix |-> n,
                  own |-> Len(varint_write(n) \o Flatten(s))]
    /\ UNCHANGED <<held, readResult, codecRound, marshalConfig>>
    /\ UNCHANGED <<stopVars, engineVars, mailboxVars, peer, metrics, staking>>

\* an encoding of an older version (cut at the end of a field) is not the
\* last thing in its reader: n words of other stored data, no byte of them
\* zero, follow it
Follow(n) ==
    /\ buffer.st = "cut"
    /\ buffer.type \in Structs
    /\ \E j \in 1..Len(FieldsOf(buffer.type)) :
            buffer.own = FieldEnd(buffer.type, j)
    /\ readResult = NoResult
    /\ buffer' = [buffer EXCEPT !.st = "followed",
                                !.bytes = buffer.bytes \o
                                          [i \in 1..(8 * n) |-> 9]]
    /\ UNCHANGED <<held, readResult, codecRound, marshalConfig>>
    /\ UNCHANGED <<stopVars, engineVars, mailboxVars, peer, metrics, staking>>

\* the buffer is read
Decode ==
    /\ buffer # NoBuffer
    /\ readResult = NoResult
    /\ LET r == read_cfg(buffer.type, buffer.bytes)
       IN  readResult' = [st |-> "done", ok |-> r.ok, error |-> r.error,
                          value |-> r.value, rest |-> r.rest]
    /\ UNCHANGED <<held, buffer, codecRound, marshalConfig>>
    /\ UNCHANGED <<stopVars, engineVars, mailboxVars, peer, metrics, staking>>

\* the program goes on with the value it read
Adopt ==
    /\ readResult.st = "done"
    /\ readResult.ok
    /\ codecRound < MaxRounds
    /\ held' = [type |-> buffer.type, f |-> readResult.value,
                origin |-> buffer.st]
    /\ buffer' = NoBuffer
    /\ readResult' = NoResult
    /\ codecRound' = codecRound + 1
    /\ UNCHANGED marshalConfig
    /\ UNCHANGED <<stopVars, engineVars, mailboxVars, peer, metrics, staking>>

CodecNext ==
    \/ \E t \in Types : \E x \in Values(t) : Hold(t, x)
    \/ Encode
    \/ \E k \in 0..Len(buffer.bytes) : Cut(k)
    \/ \E n \in 0..MaxVaults \cup
                {MAX_VAULTS - 1, MAX_VAULTS, MAX_VAULTS + 1} :
            \E s \in KeyLists(MaxVaults) : Forge(n, s)
    \/ \E n \in 1..MaxFollow : Follow(n)
    \/ Decode
    \/ Adopt

\* a second node holds a value equal to the one this node encoded, and
\* encodes it
PeerEncode ==
    /\ peer = NoPeer
    /\ buffer.st = "encoded"
    /\ readResult = NoResult
    /\ peer' = [NoPeer EXCEPT !.st = "encoded", !.type = held.type,
                              !.value = held.f,
                              !.bytes = encode_on(2, held.type, held.f)]
    /\ UNCHANGED <<held, buffer, readResult, codecRound, marshalConfig>>
    /\ UNCHANGED <<stopVars, engineVars, mailboxVars, metrics, staking>>

\* a second node reads the bytes this node read (read_cfg takes the reader
\* and nothing of the node), and encodes what it got
PeerDecode ==
    /\ peer = NoPeer
    /\ readResult.st = "done"
    /\ LET r == read_cfg(buffer.type, buffer.bytes)
       IN  peer' = [st |-> "decoded", type |-> buffer.type,
                    value |-> r.value, bytes |-> buffer.bytes,
                    ok |-> r.ok, error |-> r.error, rest |-> r.rest,
                    again |-> IF r.ok
                              THEN encode_on(2, buffer.type, r.value)
                              ELSE <<>>]
    /\ UNCHANGED <<held, buffer, readResult, codecRound, marshalConfig>>
    /\ UNCHANGED <<stopVars, engineVars, mailboxVars, metrics, staking>>

\* the second node is asked once, about the last thing this node did
ReplicaNext ==
    \/ peer = NoPeer /\ CodecNext
    \/ PeerEncode
    \/ PeerDecode

\* spawn_process_metrics registers the gauges and spawns the task
spawn_process_metrics ==
    /\ metrics.pc = "none"
    /\ metrics' = [metrics EXCEPT !.pc = "spawned"]
    /\ UNCHANGED <<held, buffer, readResult, codecRound, marshalConfig, peer>>
    /\ UNCHANGED <<stopVars, engineVars, mailboxVars, staking>>

\* one poll of the task: on the first, update() and the first sleep; on a
\* later one, when the sleep is over, update() and the next sleep
MetricsPoll(sample) ==
    /\ \/ metrics.pc = "spawned"
       \/ metrics.pc = "sleeping" /\ metrics.now >= metrics.deadline
    /\ metrics' = [metrics EXCEPT
            !.pc = "sleeping",
            !.gauges = update(sample),
            !.published = metrics.published + 1,
            !.at = metrics.now,
            !.deadline = sleep_until(metrics.now, UPDATE_INTERVAL)]
    /\ UNCHANGED <<held, buffer, readResult, codecRound, marshalConfig, peer>>
    /\ UNCHANGED <<stopVars, engineVars, mailboxVars, staking>>

\* a second passes
Tick ==
    /\ metrics.now < MaxClock
    /\ metrics' = [metrics EXCEPT !.now = metrics.now + 1]
    /\ UNCHANGED <<held, buffer, readResult, codecRound, marshalConfig, peer>>
    /\ UNCHANGED <<stopVars, engineVars, mailboxVars, staking>>

\* the holder of the task's Handle aborts it
MetricsAbort ==
    /\ metrics.pc \in {"spawned", "sleeping"}
    /\ metrics' = [metrics EXCEPT !.pc = "aborted"]
    /\ UNCHANGED <<held, buffer, readResult, codecRound, marshalConfig, peer>>
    /\ UNCHANGED <<stopVars, engineVars, mailboxVars, staking>>

MetricsNext ==
    \/ spawn_process_metrics
    \/ \E sample \in Samples : MetricsPoll(sample)
    \/ Tick
    \/ MetricsAbort

\* staker s deposits a units of voting power; what it has accrued stays
Deposit(s, a) ==
    /\ staking.power[s] + a <= MaxStake
    /\ staking' = [staking EXCEPT
            !.power[s] = staking.power[s] + a,
            !.debt[s] = staking.debt[s] + a * staking.acc]
    /\ UNCHANGED <<held, buffer, readResult, codecRound, marshalConfig, peer>>
    /\ UNCHANGED <<stopVars, engineVars, mailboxVars, metrics>>

\* r reward units are distributed over the total voting power: the
\* accumulator grows by r * 10^18 / V and the remainder goes to the carry
Distribute(r) ==
    LET V == total_voting_power(staking)
    IN  /\ V > 0
        /\ staking.distributed + r <= MaxReward
        /\ staking' = [staking EXCEPT
                !.acc = staking.acc + ((r * STAKING_REWARD_SCALE) \div V),
                !.carry = staking.carry + ((r * STAKING_REWARD_SCALE) % V),
                !.distributed = staking.distributed + r]
        /\ UNCHANGED <<held, buffer, readResult, codecRound, marshalConfig,
                       peer>>
        /\ UNCHANGED <<stopVars, engineVars, mailboxVars, metrics>>

\* staker s claims: it is paid accrued / 10^18 and its reward debt is set to
\* voting_power * acc
Claim(s) ==
    /\ staking.power[s] > 0
    /\ staking.claims < MaxClaims
    /\ staking' = [staking EXCEPT
            !.claimed = staking.claimed + unclaimed_rewards(staking, s),
            !.debt[s] = staking.power[s] * staking.acc,
            !.claims = staking.claims + 1]
    /\ UNCHANGED <<held, buffer, readResult, codecRound, marshalConfig, peer>>
    /\ UNCHANGED <<stopVars, engineVars, mailboxVars, metrics>>

StakingNext ==
    \/ \E s \in 1..NumStakers : \E a \in 1..MaxStake : Deposit(s, a)
    \/ \E r \in 1..MaxReward : Distribute(r)
    \/ \E s \in 1..NumStakers : Claim(s)

\* Engine::new computes the marshal's configuration
EngineNew(activity_timeout) ==
    /\ ~marshalConfig.set
    /\ marshalConfig' =
        [set |-> TRUE, activity_timeout |-> activity_timeout,
         view_retention_timeout |->
            saturating_mul(activity_timeout,
                           SYNCER_ACTIVITY_TIMEOUT_MULTIPLIER)]
    /\ UNCHANGED <<held, buffer, readResult, codecRound>>
    /\ UNCHANGED <<stopVars, engineVars, mailboxVars, peer, metrics, staking>>

ConfigNext == \E a \in 0..U64_MAX : EngineNew(a)

----------------------------------------------------------------------------
(* Specifications *)

Init == EngineInit /\ MailboxInit /\ TypesInit
EngineSpec == Init /\ [][EngineNext]_vars
\* the supervisor task is scheduled whenever it can make progress
EngineFairSpec == Init /\ [][EngineNext]_vars /\ WF_vars(RunStep)
MailboxSpec == Init /\ [][MailboxNext]_vars
\* a caller that was woken is polled again; the application owes nothing
MailboxFairSpec ==
    Init /\ [][MailboxNext]_vars /\ \A c \in Calls : WF_vars(CallStep(c))
CodecSpec == Init /\ [][CodecNext]_vars
ReplicaSpec == Init /\ [][ReplicaNext]_vars
StakingSpec == Init /\ [][StakingNext]_vars
\* the runtime's clock advances and a task that can run is polled
MetricsFairSpec ==
    /\ Init /\ [][MetricsNext]_vars
    /\ WF_vars(Tick)
    /\ WF_vars(\E sample \in Samples : MetricsPoll(sample))
ConfigSpec == Init /\ [][ConfigNext]_vars

----------------------------------------------------------------------------
(* Supervisor claims *)

AllRunning == \A a \in Actors : status[a] = "running"
StopReady == stopSig # "pending"
Down(a) == status[a] \in HandleResults \cup {"Aborted"}

\* C1: whenever Engine::run has returned, every actor has completed or has
\* been aborted: the task that ended the select is complete, and run has
\* called abort on the handle of every other actor.
C1_NoActorLeftRunning ==
    runPc = "returned" =>
        \A a \in Actors :
            /\ Down(a)
            /\ \/ (completed.kind = "Actor" /\ completed.name = a)
               \/ a \in abortCalled

\* an actor whose own handle was aborted brought the engine down, and the
\* supervisor aborted actors that were still running
C1_Witness ==
    /\ runPc = "returned"
    /\ completed.kind = "Actor"
    /\ completed.result = "Closed"
    /\ \E a \in Actors : status[a] = "Aborted"

\* C2: from a state with all eight actors running and the stop signal
\* raised, Engine::run eventually returns with no actor left running; when
\* no actor finished on its own, it is the stop task that completed and
\* abort was called on all eight handles.
C2_StopTerminatesAll ==
    (AllRunning /\ StopReady) ~>
        (/\ runPc = "returned"
         /\ \A a \in Actors : Down(a)
         /\ (\A a \in Actors : status[a] \notin HandleResults) =>
                (completed.kind = "Stop" /\ abortCalled = Actors))

\* the stop signal ended a run whose actors were all healthy
C2_Witness ==
    /\ runPc = "returned"
    /\ completed.kind = "Stop"
    /\ abortCalled = Actors
    /\ \A a \in Actors : status[a] = "Aborted"

\* C3: the actors are started in the order system metrics, seeder,
\* aggregation, aggregator, broadcast buffer, application, marshal,
\* consensus, each exactly once; consensus is started only after both
\* application and marshal.
C3_StartOrder ==
    LET order == <<"system_metrics", "seeder", "aggregation", "aggregator",
                   "buffer", "application", "marshal", "consensus">>
        pos(a) == CHOOSE i \in 1..Len(started) : started[i] = a
        isStarted(a) == \E i \in 1..Len(started) : started[i] = a
    IN  /\ Len(started) <= Len(order)
        /\ \A i \in 1..Len(started) : started[i] = order[i]
        /\ \A i, j \in 1..Len(started) : started[i] = started[j] => i = j
        /\ \A a \in Actors : (status[a] # "unstarted") <=> isStarted(a)
        /\ isStarted("consensus") =>
            /\ isStarted("application") /\ isStarted("marshal")
            /\ pos("application") < pos("consensus")
            /\ pos("marshal") < pos("consensus")

\* all eight actors have been started
C3_Witness ==
    /\ Len(started) = 8
    /\ started[8] = "consensus"
    /\ runPc = "select"

----------------------------------------------------------------------------
(* Mailbox claims *)

Value(v) == [st |-> "value", value |-> v]

\* what the receiver handed back by propose or verify resolves to
Yields(c) ==
    CASE call[c].ret.kind = "fallback" -> Value(call[c].ret.value)
      [] call[c].ret.kind = "receiver" /\ reply[c].st = "sent" ->
            Value(reply[c].value)
      [] call[c].ret.kind = "receiver" /\ reply[c].st = "canceled" ->
            [st |-> "canceled", value |-> "-"]
      [] OTHER -> [st |-> "pending", value |-> "-"]

\* the application has dequeued the message of call c
Delivered(c) == \E i \in 1..Len(received) : received[i].call = c

\* C4: genesis() returns the genesis digest when the mailbox is closed at
\* the call, when the stop branch is taken and when the application drops
\* the reply channel; in each case the call is done or can take its next step.
C4_GenesisFallback ==
    \A c \in Calls : (call[c].op = "genesis") =>
        /\ call[c].closedAtCall =>
              /\ call[c].pc = "done"
              /\ call[c].ret = [kind |-> "value", value |-> GenesisDigest]
        /\ (call[c].pc = "done"
                /\ (call[c].path = "stop" \/ reply[c].st = "canceled")) =>
              call[c].ret = [kind |-> "value", value |-> GenesisDigest]
        /\ (call[c].pc = "send" /\ (closed \/ stopSig # "pending")) =>
              ENABLED CallPollSend(c)
        /\ (call[c].pc = "await" /\ reply[c].st = "canceled") =>
              ENABLED CallPollReply(c)

\* one genesis call came back through the stop branch, another because the
\* application dropped its reply channel
C4_Witness ==
    \E b, c \in Calls :
        /\ call[b].op = "genesis" /\ call[b].pc = "done"
        /\ call[b].path = "reply_dropped"
        /\ call[c].op = "genesis" /\ call[c].pc = "done"
        /\ call[c].path = "stop"

\* C5: propose(context) on a mailbox that is closed at the call hands back
\* a receiver that yields the digest of context.parent, whatever the view and
\* the parent; so does a propose that takes the stop branch.
C5_ProposeFallback ==
    \A c \in Calls :
        (/\ call[c].op = "propose"
         /\ \/ call[c].closedAtCall
            \/ (call[c].pc = "done" /\ call[c].path = "stop"))
        => (call[c].pc = "done" /\ Yields(c) = Value(call[c].pdigest))

\* a propose on a closed mailbox whose parent is not the genesis digest
C5_Witness ==
    \E c \in Calls :
        /\ call[c].op = "propose" /\ call[c].pc = "done"
        /\ call[c].closedAtCall
        /\ call[c].pdigest # GenesisDigest
        /\ Yields(c) = Value(call[c].pdigest)

\* C6: a verify called with the stop signal already raised hands back a
\* receiver that yields false: it never resolves to another value.
C6_VerifyAfterStopIsFalse ==
    \A c \in Calls :
        (call[c].op = "verify" /\ call[c].stopAtCall /\ call[c].pc = "done"
            /\ Yields(c).st = "value")
        => Yields(c) = Value("false")

\* C7: the receiver handed back by verify yields true only when the
\* application dequeued that Verify message and answered true; the closed
\* path, the stop path and a dropped reply never yield true.
C7_VerifyTrueOnlyFromApplication ==
    \A c \in Calls : (call[c].op = "verify") =>
        /\ Yields(c) = Value("true") =>
              /\ \E i \in 1..Len(received) :
                    /\ received[i].call = c
                    /\ received[i].variant = "Verify"
              /\ reply[c] = [st |-> "sent", value |-> "true"]
        /\ (call[c].closedAtCall \/ call[c].path \in {"closed", "stop"}
                \/ reply[c].st = "canceled") =>
              Yields(c) # Value("true")

\* the application accepted a payload, and a verify on the stop path of a
\* request the application answered with true still yields false
C7_Witness ==
    /\ \E c \in Calls : call[c].op = "verify" /\ Yields(c) = Value("true")
    /\ \E c \in Calls :
        /\ call[c].op = "verify" /\ call[c].path = "stop"
        /\ reply[c] = [st |-> "sent", value |-> "true"]
        /\ Yields(c) = Value("false")

\* C8: broadcast, ancestry, report and seeded return normally on a closed
\* mailbox and on the stop branch, and the message of such a call is never
\* delivered to the application.
C8_DroppedIsNotDelivered ==
    \A c \in Calls :
        (call[c].op \in {"broadcast", "ancestry", "report", "seeded"}
            /\ call[c].pc = "done" /\ call[c].path \in {"closed", "stop"})
        => (call[c].ret = UnitRet /\ ~Delivered(c))

\* the outcome a call falls back to
FallbackOf(c) ==
    CASE call[c].op = "genesis" -> [kind |-> "value", value |-> GenesisDigest]
      [] call[c].op = "propose" ->
            [kind |-> "fallback", value |-> call[c].pdigest]
      [] call[c].op = "verify" -> [kind |-> "fallback", value |-> "false"]
      [] OTHER -> UnitRet

\* C9: a call suspended in its send on a full mailbox, once the stop signal
\* is raised, eventually returns with its fallback outcome unless the
\* mailbox is drained or closed first.
C9_StopReleasesBlockedSend ==
    \A c \in Calls :
        (call[c].pc = "send" /\ stopSig # "pending") ~>
            \/ /\ call[c].pc = "done" /\ call[c].path = "stop"
               /\ call[c].ret = FallbackOf(c)
            \/ ~parked[c]
            \/ closed

\* a call came back through the stop branch while its sender was parked on
\* an open mailbox that holds more than mailbox_size messages
C9_Witness ==
    \E c \in Calls :
        /\ call[c].pc = "done" /\ call[c].path = "stop"
        /\ parked[c] /\ ~closed
        /\ Len(queue) > MailboxSize

\* C10: once the stop signal is raised, a call suspended sending its request
\* or awaiting its reply eventually returns, whatever the application does.
C10_StopReleasesEveryAwait ==
    \A c \in Calls :
        (call[c].pc \in {"send", "await"} /\ stopSig # "pending") ~>
            (call[c].pc = "done")

\* the message built by call c is waiting in the mailbox
InQueue(c) == \E i \in 1..Len(queue) : queue[i].call = c

\* C11: the application mailbox never holds more than mailbox_size
\* undelivered messages: a producer whose message would exceed that bound is
\* suspended before the message is enqueued.
C11_QueueWithinMailboxSize ==
    /\ Len(queue) <= MailboxSize
    /\ \A c \in Calls : parked[c] => ~InQueue(c)

\* C12: once the stop signal is raised no call enqueues a new message:
\* every call started after that point comes back through its fallback
\* branch and leaves nothing in the mailbox.
C12_NoEnqueueAfterStop ==
    [][(stopSig # "pending") =>
        /\ Len(queue') <= Len(queue)
        /\ \A c \in Calls :
              (call[c].pc = "idle" /\ call'[c].pc # "idle") =>
                  /\ call'[c].pc = "done"
                  /\ call'[c].path \in {"stop", "closed"}]_vars

\* C13: a call that takes the stop branch of its select has cancelled its
\* pending send: its message is neither in the mailbox nor delivered to the
\* application, and the step that takes the branch leaves the queue as it
\* was.
C13_StopBranchLeavesNoMessage ==
    [][\A c \in Calls :
        (call'[c].path = "stop") =>
            /\ ~(\E i \in 1..Len(queue') : queue'[i].call = c)
            /\ ~(\E i \in 1..Len(received') : received'[i].call = c)
            /\ (call[c].path # "stop") => (queue' = queue)]_vars

\* C14 as stated: a call whose send is blocked on a full mailbox comes back
\* after a deadline, even when the stop signal is never raised.
C14_BlockedSendTimesOut ==
    \A c \in Calls : (call[c].pc = "send") ~> (call[c].pc # "send")

\* C14: the send of a call is raced against the stop signal only. A call
\* suspended in its send can take a step exactly when the mailbox is closed,
\* its sender is no longer parked or the stop signal is raised; a call is in its stop branch only with the stop
\* signal raised, and in its closed branch only when the mailbox was closed
\* at the call.
C14_BlockedSendWaitsForStop ==
    \A c \in Calls :
        /\ (call[c].pc = "send") =>
              (ENABLED CallStep(c)
                  <=> (closed \/ ~parked[c] \/ stopSig # "pending"))
        /\ (call[c].path = "stop") => (stopSig # "pending")
        /\ (call[c].path = "closed") => (call[c].closedAtCall /\ closed)

\* the mailbox holds more than mailbox_size messages, the stop signal is not
\* raised, the mailbox is open, and the call whose send is suspended cannot
\* take a step
C14_Witness ==
    \E c \in Calls :
        /\ call[c].pc = "send" /\ parked[c]
        /\ ~closed /\ stopSig = "pending"
        /\ Len(queue) > MailboxSize
        /\ ~ENABLED CallStep(c)

\* C15 as stated: every degraded path of every operation has logged a
\* warning when the call returns, the two degraded paths of report's wait
\* for the acknowledgement included.
C15_EveryDegradedPathWarns ==
    \A c \in Calls :
        (call[c].pc = "done"
            /\ call[c].path \in {"closed", "stop", "stop_await",
                                 "reply_dropped"})
        => call[c].warn # "none"

\* C15: a call that returns through the closed branch or the stop branch of
\* its send has logged a warning, and so has a genesis whose reply channel
\* was dropped; a report that stops waiting for the acknowledgement, because
\* the stop signal is raised or because the application dropped the reply
\* channel, returns without a warning, like a call on its normal path.
C15_WarningsOfDegradedPaths ==
    \A c \in Calls : (call[c].pc = "done") =>
        /\ (call[c].path \in {"closed", "stop"}) => (call[c].warn # "none")
        /\ (call[c].op = "genesis" /\ call[c].path = "reply_dropped") =>
              (call[c].warn # "none")
        /\ (call[c].op = "report"
                /\ call[c].path \in {"stop_await", "reply_dropped"}) =>
              (call[c].warn = "none")
        /\ (call[c].path \in {"sent", "replied"}) => (call[c].warn = "none")

\* a seeded dropped on the stop branch with its warning, next to a report
\* that gave up waiting for its acknowledgement without one
C15_Witness ==
    \E b, c \in Calls :
        /\ call[b].op = "seeded" /\ call[b].pc = "done"
        /\ call[b].path = "stop" /\ call[b].warn # "none"
        /\ call[c].op = "report" /\ call[c].pc = "done"
        /\ call[c].path = "stop_await" /\ call[c].warn = "none"

----------------------------------------------------------------------------
(* Start order and mailboxes *)

\* C16: whenever consensus, marshal or application has been started, every
\* actor whose mailbox it sends into has been started already.
C16_ConsumerStartedBeforeSender ==
    LET isStarted(a) == \E i \in 1..Len(started) : started[i] = a
    IN  \A e \in SendsInto :
            (e[1] \in {"consensus", "marshal", "application"}
                /\ isStarted(e[1]))
            => isStarted(e[2])

----------------------------------------------------------------------------
(* Mailbox ordering *)

\* the send of call c has completed: its select took the send branch
SendCompleted(c) ==
    call[c].path \in {"sent", "replied", "reply_dropped", "stop_await"}

\* C18: the mailbox is first in, first out across the sender clones. A
\* message whose send completed before another call started is ahead of that
\* call's message in the queue; the queue only grows at its end, and the
\* application dequeues its head, so the order of the queue is the order of
\* delivery.
C18_MailboxIsFifo ==
    [][/\ \A b, c \in Calls :
            (SendCompleted(b) /\ call[c].pc = "idle" /\ call'[c].pc # "idle")
            => \A i, j \in 1..Len(queue') :
                  (queue'[i].call = b /\ queue'[j].call = c) => i < j
       /\ \/ queue' = queue
          \/ /\ Len(queue') = Len(queue) + 1
             /\ SubSeq(queue', 1, Len(queue)) = queue
          \/ /\ queue # <<>>
             /\ queue' = Tail(queue)
             /\ received' = Append(received, Head(queue))
          \/ closed' /\ queue' = <<>>
       /\ (received' # received) =>
            /\ queue # <<>>
            /\ received' = Append(received, Head(queue))]_vars

\* the first call's send completed on an empty mailbox before the second
\* call was made, and the application has dequeued both messages in that
\* order
C18_Witness ==
    /\ Len(received) = 2
    /\ received[1].call = 1 /\ received[2].call = 2
    /\ SendCompleted(1) /\ SendCompleted(2)
    /\ received[1].variant # received[2].variant

\* the message m is the request built by the call whose response sender it
\* carries
OwnRequest(m, cs) ==
    /\ m.variant = Variant(cs[m.call].op)
    /\ m.view = cs[m.call].view
    /\ m.parent = <<cs[m.call].pview, cs[m.call].pdigest>>
    /\ m.payload = cs[m.call].payload
    /\ m.block = cs[m.call].block

\* C19: every message carries the response sender created by the call that
\* built it, so an answer of the application resolves the receiver of that
\* call and of no other, in whatever order the application answers; and what
\* the receiver handed back by propose or verify yields, once it is a value
\* or a cancellation, never changes: a fallback is not replaced by a reply.
C19_RepliesMatchedOnce ==
    [][/\ \A i \in 1..Len(queue') : OwnRequest(queue'[i], call')
       /\ \A i \in 1..Len(received') : OwnRequest(received'[i], call')
       /\ \A c \in Calls :
            (reply'[c] # reply[c] /\ reply'[c].st = "sent") =>
                /\ reply[c].st = "pending"
                /\ Delivered(c)
                /\ \A d \in Calls \ {c} :
                      reply'[d] = reply[d] /\ Yields(d)' = Yields(d)
       /\ \A c \in Calls :
            (call[c].op \in {"propose", "verify"}
                /\ Yields(c).st # "pending")
            => (Yields(c)' = Yields(c))]_vars

\* two requests are outstanding and the application has answered the second
\* one first: its receiver yields the answer, the first is still pending
C19_Witness ==
    /\ call[1].op = "propose" /\ call[2].op = "verify"
    /\ Delivered(1) /\ Delivered(2)
    /\ call[1].ret = ReceiverRet /\ call[2].ret = ReceiverRet
    /\ Yields(1).st = "pending"
    /\ Yields(2) = Value("true")

\* the place of the message of call c among the dequeued ones
PosReceived(c) == CHOOSE i \in 1..Len(received) : received[i].call = c

\* C20: the mailbox puts Seeded and Finalized of one block in no order of
\* its own and makes neither call wait for the other. Whichever is called
\* next can be called, whatever the state of the earlier call; seeded
\* returns as soon as its send completes, report waits for its own
\* acknowledgement only; and the application dequeues the two in the order
\* they were called in.
C20_SeededFinalizedUnordered ==
    /\ \A c \in Calls :
        (call[c].pc = "idle" /\ \A b \in Calls : b < c => call[b].pc # "idle")
        => \A op \in {"seeded", "report"} : \A a \in ArgsOf(op) :
              ENABLED CallStart(c, op, a)
    /\ \A s, r \in Calls :
        (/\ call[s].op = "seeded" /\ call[r].op = "report"
         /\ call[s].block = call[r].block)
        => /\ SendCompleted(s) => call[s].pc = "done"
           /\ (call[r].pc = "await") =>
                (ENABLED CallStep(r)
                    <=> (reply[r].st # "pending" \/ stopSig # "pending"))
           /\ (Delivered(s) /\ Delivered(r)) =>
                ((PosReceived(s) < PosReceived(r)) <=> (s < r))

\* Finalized of a block was dequeued before Seeded of the same block; seeded
\* has returned while report is still waiting for its acknowledgement
C20_Witness ==
    \E s, r \in Calls :
        /\ call[s].op = "seeded" /\ call[r].op = "report"
        /\ call[s].block = call[r].block
        /\ Delivered(s) /\ Delivered(r)
        /\ PosReceived(r) < PosReceived(s)
        /\ call[s].pc = "done" /\ call[r].pc = "await"

\* the other interleaving: Seeded of a block was dequeued before Finalized
\* of the same block
C20_SeededFirst ==
    \E s, r \in Calls :
        /\ call[s].op = "seeded" /\ call[r].op = "report"
        /\ call[s].block = call[r].block
        /\ Delivered(s) /\ Delivered(r)
        /\ PosReceived(s) < PosReceived(r)

----------------------------------------------------------------------------
(* Codec claims *)

\* an encoding of the held value was read back whole
ReadBack == buffer.st = "encoded" /\ readResult.st = "done"
\* the read consumed the whole buffer and returned a value: decode is Ok
DecodeOk == readResult.ok /\ readResult.rest = <<>>
StrictlyAscending(s) == \A i \in 1..(Len(s) - 1) : KeyLess(s[i], s[i + 1])

\* C21 as stated: decode(encode(x)) = x for every value of every state
\* entity, a VaultRegistry in any order or with duplicate keys included.
C21_RoundTripEveryValue ==
    ReadBack => DecodeOk /\ readResult.value = held.f

\* C21: decode(encode(x)) = x for every value of the eight structs and for
\* a VaultRegistry whose vaults are strictly ascending; a VaultRegistry
\* whose vaults are out of order or repeat a key decodes, but to a
\* different value.
C21_RoundTripOfNormalValues ==
    ReadBack =>
        /\ DecodeOk
        /\ held.type \in Structs => readResult.value = held.f
        /\ held.type = "VaultRegistry" =>
            (readResult.value = held.f <=> StrictlyAscending(held.f.vaults))

\* a registry of three distinct keys, already ascending, was read back, and
\* so was a struct with a negative net_pnl
C21_Witness ==
    /\ ReadBack
    /\ \/ /\ held.type = "VaultRegistry"
          /\ Len(held.f.vaults) = MaxVaults
          /\ StrictlyAscending(held.f.vaults)
       \/ /\ held.type = "AmmPool"
          /\ held.f.fee_basis_points # held.f.sell_tax_basis_points

\* the number of leading fields an encoding of t must hold
Mandatory(t) ==
    CASE t = "HouseState" -> 8
      [] t = "Staker" -> 4
      [] t = "Vault" -> 2
      [] t = "SavingsPool" -> 1
      [] t = "SavingsBalance" -> 1
      [] t = "AmmPool" -> 5
      [] t = "PolicyState" -> 21
      [] t = "TreasuryState" -> 6

\* the entities with optional trailing fields
Tolerant ==
    {"HouseState", "Staker", "Vault", "SavingsPool", "SavingsBalance",
     "AmmPool"}

\* the stored bytes are the encoding of the held value cut after its j-th
\* field, j at or past the mandatory fields, and they were read
CutAfter(j) ==
    /\ buffer.st = "cut"
    /\ buffer.type \in Tolerant
    /\ j \in Mandatory(buffer.type)..(Len(FieldsOf(buffer.type)) - 1)
    /\ Len(buffer.bytes) = FieldEnd(buffer.type, j)
    /\ readResult.st = "done"

\* the configured base for the two progressive jackpots, zero for every
\* other field
DocumentedDefault(t, n) ==
    CASE t = "HouseState" /\ n = "three_card_progressive_jackpot" ->
            U64(THREE_CARD_PROGRESSIVE_BASE_JACKPOT)
      [] t = "HouseState" /\ n = "uth_progressive_jackpot" ->
            U64(UTH_PROGRESSIVE_BASE_JACKPOT)
      [] OTHER -> Zero(FieldSize(t, n))

\* the default read_cfg names for a field it finds no bytes for: the same,
\* with the bootstrap price of an AmmPool at its constants
DefaultOnTruncation(t, n) ==
    CASE t = "AmmPool" /\ n = "bootstrap_price_vusdt_numerator" ->
            U64(AMM_BOOTSTRAP_PRICE_VUSDT_NUMERATOR)
      [] t = "AmmPool" /\ n = "bootstrap_price_rng_denominator" ->
            U64(AMM_BOOTSTRAP_PRICE_RNG_DENOMINATOR)
      [] OTHER -> DocumentedDefault(t, n)

\* the read kept the first j fields of the held value and gave the others
\* the default dflt names
KeepsAndDefaults(j, dflt(_, _)) ==
    LET t == buffer.type
    IN  /\ DecodeOk
        /\ \A i \in 1..Len(FieldsOf(t)) :
            LET n == FieldsOf(t)[i][1]
            IN  readResult.value[n] =
                    IF i <= j THEN held.f[n] ELSE dflt(t, n)

TruncatedRead ==
    /\ buffer.st = "cut"
    /\ buffer.type \in Structs
    /\ readResult.st = "done"
    /\ readResult.ok

\* step i of the read found fewer bytes than its field needs
Defaulted(i) ==
    LET plan == PlanOf(buffer.type)
        len == Len(buffer.bytes)
    IN  len - Consumed(plan, i, len) < plan[i].size

\* C23 as stated: on a truncated read only the two progressive jackpots
\* default to a non-zero value (their base); every other defaulted field of
\* every state entity is zero.
C23_OnlyJackpotsDefaultNonZero ==
    TruncatedRead =>
        \A i \in 1..Len(PlanOf(buffer.type)) :
            LET n == PlanOf(buffer.type)[i].name
            IN  Defaulted(i) =>
                    readResult.value[n] = DocumentedDefault(buffer.type, n)

\* C23: on a truncated read a defaulted field is zero, except the two
\* progressive jackpots of HouseState, which take their configured base,
\* and the bootstrap price numerator and denominator of AmmPool, which take
\* AMM_BOOTSTRAP_PRICE_VUSDT_NUMERATOR and AMM_BOOTSTRAP_PRICE_RNG_DENOMINATOR.
C23_DefaultsOfTruncatedRead ==
    TruncatedRead =>
        \A i \in 1..Len(PlanOf(buffer.type)) :
            LET n == PlanOf(buffer.type)[i].name
            IN  Defaulted(i) =>
                    readResult.value[n] = DefaultOnTruncation(buffer.type, n)

\* an AmmPool holding another bootstrap price was cut after
\* sell_tax_basis_points and read: both price fields were defaulted
C23_Witness ==
    /\ TruncatedRead
    /\ buffer.type = "AmmPool"
    /\ Len(buffer.bytes) = FieldEnd("AmmPool", 5)
    /\ Defaulted(6) /\ Defaulted(7)
    /\ held.f.bootstrap_price_rng_denominator #
            readResult.value.bootstrap_price_rng_denominator

\* C24: the encoding of every value of every state entity, one obtained by
\* decoding a legacy truncated encoding included, holds every field in
\* declaration order (a VaultRegistry: its length, then every key in list
\* order), and its length is encode_size().
C24_WriteEmitsEveryField ==
    buffer.st = "encoded" =>
        /\ Len(buffer.bytes) = encode_size(held.type, held.f)
        /\ held.type \in Structs =>
            LET t == held.type
            IN  /\ Len(buffer.bytes) = FieldEnd(t, Len(FieldsOf(t)))
                /\ \A i \in 1..Len(FieldsOf(t)) :
                    SubSeq(buffer.bytes, FieldEnd(t, i - 1) + 1,
                           FieldEnd(t, i)) = held.f[FieldsOf(t)[i][1]]
        /\ held.type = "VaultRegistry" =>
            LET n == Len(held.f.vaults)
            IN  /\ Len(buffer.bytes) = 1 + 32 * n
                /\ buffer.bytes[1] = n
                /\ \A i \in 1..n :
                    SubSeq(buffer.bytes, 32 * (i - 1) + 2, 32 * i + 1) =
                        held.f.vaults[i]

\* a HouseState read from an encoding cut inside its optional fields was
\* encoded again, the defaulted fields included
C24_Witness ==
    /\ buffer.st = "encoded"
    /\ held.type = "HouseState"
    /\ held.origin = "cut"
    /\ held.f.staking_reward_carry = Zero(8)
    /\ held.f.uth_progressive_jackpot = U64(UTH_PROGRESSIVE_BASE_JACKPOT)
    /\ Len(buffer.bytes) = FieldEnd("HouseState", 17)

\* the keys of the encoded list, read off the stored bytes (a list shorter
\* than 128 has a one-byte length)
EncodedKeys ==
    {SubSeq(buffer.bytes, 32 * (i - 1) + 2, 32 * i + 1) :
        i \in 1..buffer.bytes[1]}

RegistryDecoded ==
    /\ buffer.type = "VaultRegistry"
    /\ readResult.st = "done"
    /\ readResult.ok

\* C25: every VaultRegistry returned by a successful decode has its vaults
\* strictly ascending and holds exactly the keys of the encoded list,
\* whatever their order and multiplicity there.
C25_DecodedRegistryNormalised ==
    RegistryDecoded =>
        LET vaults == readResult.value.vaults
        IN  /\ StrictlyAscending(vaults)
            /\ {vaults[i] : i \in 1..Len(vaults)} = EncodedKeys

\* a list of three keys, out of order and with one key twice, was decoded
\* to two keys
C25_Witness ==
    /\ RegistryDecoded
    /\ buffer.st = "encoded"
    /\ held.type = "VaultRegistry"
    /\ Len(held.f.vaults) = 3
    /\ buffer.bytes[1] = 3
    /\ Cardinality(EncodedKeys) = 2
    /\ KeyLess(held.f.vaults[2], held.f.vaults[1])
    /\ held.f.vaults[3] = held.f.vaults[1]
    /\ Len(readResult.value.vaults) = 2

\* the length the stored bytes of a VaultRegistry announce
LengthPrefix ==
    IF buffer.st = "forged" THEN buffer.prefix ELSE Len(held.f.vaults)

\* the stored bytes hold the announced length and that many keys
HoldsAnnouncedKeys ==
    /\ buffer.st # "cut"
    /\ Len(buffer.bytes) >=
            Len(varint_write(LengthPrefix)) + 32 * LengthPrefix

\* C26: decoding a VaultRegistry whose length prefix exceeds 100 000 fails
\* on the length and yields no registry; a length from 0 to 100 000
\* inclusive is never refused, and the decode succeeds when the announced
\* keys are there.
C26_RegistryLengthBound ==
    (buffer.type = "VaultRegistry" /\ readResult.st = "done") =>
        /\ LengthPrefix > 100000 =>
            /\ ~readResult.ok
            /\ readResult.error = "InvalidLength"
            /\ readResult.value = <<>>
        /\ LengthPrefix <= 100000 =>
            /\ readResult.error # "InvalidLength"
            /\ HoldsAnnouncedKeys => readResult.ok

\* stored bytes announcing 100 001 keys were read and refused
C26_Witness ==
    /\ buffer.type = "VaultRegistry"
    /\ buffer.st = "forged"
    /\ buffer.prefix = 100001
    /\ readResult.st = "done"
    /\ readResult.error = "InvalidLength"

\* the stored bytes of a struct end before its mandatory fields do, and
\* they were read
EndsInsideMandatory ==
    /\ buffer.st = "cut"
    /\ buffer.type \in Structs
    /\ Len(buffer.bytes) < FieldEnd(buffer.type, Mandatory(buffer.type))
    /\ readResult.st = "done"

\* C27: decoding bytes that end inside the mandatory prefix of an entity
\* (the first eight fields of HouseState, four of Staker, two of Vault, one
\* of SavingsPool and of SavingsBalance, five of AmmPool, every field of
\* PolicyState and of TreasuryState) returns an error and no value.
C27_MandatoryPrefixRequired ==
    EndsInsideMandatory =>
        /\ ~readResult.ok
        /\ readResult.error = "EndOfBuffer"
        /\ readResult.value = <<>>

\* a HouseState whose bytes end one byte short of its eighth field was read
C27_Witness ==
    /\ EndsInsideMandatory
    /\ buffer.type = "HouseState"
    /\ Len(buffer.bytes) = FieldEnd("HouseState", 8) - 1
    /\ ~readResult.ok

\* both progressive jackpots of HouseState x are at or above their bases
JackpotsAtLeastBase(x) ==
    /\ Geq(x.three_card_progressive_jackpot,
           U64(THREE_CARD_PROGRESSIVE_BASE_JACKPOT))
    /\ Geq(x.uth_progressive_jackpot, U64(UTH_PROGRESSIVE_BASE_JACKPOT))

HouseStateDecoded ==
    /\ buffer.type = "HouseState"
    /\ readResult.st = "done"
    /\ readResult.ok

----------------------------------------------------------------------------
(* Configuration claims *)

\* C29: the marshal's view_retention_timeout is activity_timeout times 10
\* for every activity_timeout of the word; when the product does not fit
\* the word it is the largest value of the word, never a wrapped-around
\* smaller one.
C29_ViewRetentionSaturates ==
    marshalConfig.set =>
        LET a == marshalConfig.activity_timeout
            v == marshalConfig.view_retention_timeout
        IN  /\ a * 10 <= U64_MAX => v = a * 10
            /\ a * 10 > U64_MAX => v = U64_MAX
            /\ v >= a

\* an activity_timeout whose product by 10 overflows the word and would
\* wrap to less than the timeout itself
C29_Witness ==
    /\ marshalConfig.set
    /\ marshalConfig.activity_timeout * 10 > U64_MAX
    /\ wrapping_mul(marshalConfig.activity_timeout, 10) <
            marshalConfig.activity_timeout
    /\ marshalConfig.view_retention_timeout = U64_MAX

----------------------------------------------------------------------------
(* Supervisor claims, continued *)

\* C30: once select_all has resolved (an actor completed with Ok or Err, or
\* the stop signal fired), Engine::run starts no actor, no actor that
\* stopped runs again, and run only goes on to abort the others, log and
\* return; the log line is a warning for a stop and for an Ok exit, an
\* error for an Err exit.
C30_NoRetryAfterCompletion ==
    [][/\ completed # None =>
            /\ started' = started
            /\ completed' = completed
            /\ runPc' \in {"abort", "returned"}
            /\ \A a \in Actors :
                status'[a] = "running" => status[a] = "running"
       /\ engineLog' # engineLog =>
            /\ runPc' = "returned"
            /\ engineLog'.level =
                IF completed.kind = "Stop" \/ completed.result = "Ok"
                THEN "warn" ELSE "error"
            /\ engineLog'.cause =
                IF completed.kind = "Stop" THEN "engine"
                ELSE completed.name]_vars

\* run returned after an actor failed: the others were aborted, none runs,
\* and the failure was logged as an error
C30_Witness ==
    /\ runPc = "returned"
    /\ completed.kind = "Actor"
    /\ completed.result = "Err"
    /\ engineLog.level = "error"
    /\ engineLog.cause = completed.name
    /\ \A a \in Actors : status[a] # "running"
    /\ Cardinality(abortCalled) = Len(StartOrder) - 1

----------------------------------------------------------------------------
(* Mailbox claims, continued *)

Returned(c, op) == call[c].op = op /\ call[c].pc = "done"

\* the application took the message of call c out of its mailbox
Received(c) == \E i \in 1..Len(received) : received[i].call = c

\* C34: report does not return before the application has answered the
\* Finalized message or dropped its reply sender, unless the mailbox is
\* closed or the stop signal is raised; a report that returned with the
\* stop signal not raised and its send accepted returned because the
\* application handled the block (it took the message and answered or
\* dropped the reply sender) or discarded it (it closed the mailbox with
\* the message still queued).
C34_ReportWaitsForApplication ==
    \A c \in Calls :
        Returned(c, "report") =>
            /\ \/ reply[c].st \in {"sent", "canceled"}
               \/ call[c].path = "closed"
               \/ stopSig # "pending"
            /\ (stopSig = "pending" /\ call[c].path # "closed") =>
                /\ call[c].path \in {"replied", "reply_dropped"}
                /\ reply[c].st = "sent" => Received(c)
                /\ reply[c].st = "canceled" => Received(c) \/ closed

\* a report returned on the application's answer, the stop signal not raised
C34_Witness ==
    \E c \in Calls :
        /\ Returned(c, "report")
        /\ call[c].path = "replied"
        /\ reply[c].st = "sent"
        /\ Received(c)
        /\ stopSig = "pending"
        /\ ~closed

----------------------------------------------------------------------------
(* Supervisor claims, continued *)

\* C35: while all eight actors are running and the stop signal has not
\* fired (it is neither raised nor resolved by the loss of its sender),
\* Engine::run has neither passed its select_all nor aborted any actor; it
\* is past the select_all only when some actor task has completed or the
\* stop signal has fired.
C35_RunWaitsForCompletion ==
    /\ (AllRunning /\ stopSig = "pending") =>
        /\ runPc \in {"start", "select"}
        /\ completed = None
        /\ abortCalled = {}
    /\ runPc \in {"abort", "returned"} =>
        \/ \E a \in Actors : status[a] \in HandleResults
        \/ stopSig # "pending"

\* run waits in select_all with the eight actors running and no stop signal:
\* it has no step to take
C35_Witness ==
    /\ runPc = "select"
    /\ AllRunning
    /\ stopSig = "pending"
    /\ ~ENABLED RunStep

\* the task a completion came from, and its place in the list
CauseOf(cmp) == IF cmp.kind = "Stop" THEN "engine" ELSE cmp.name
TaskIdx(t) == CHOOSE i \in 1..Len(Tasks) : Tasks[i] = t

\* the completion cmp is that of a task that is done
ReallyCompleted(cmp) ==
    IF cmp.kind = "Stop"
    THEN /\ stopSig # "pending"
         /\ cmp.value = IF stopSig = "raised" THEN stopValue ELSE 0
    ELSE /\ status[cmp.name] \in HandleResults
         /\ cmp.result = status[cmp.name]

\* C36: Engine::run reports one termination cause per run, that of a task
\* that really completed, and never changes it; of the tasks that are ready
\* when select_all resolves it reports the earliest in the list
\* (system_metrics, seeder, aggregation, aggregator, buffer, application,
\* marshal, consensus, stop), so an actor's exit goes before the stop signal.
C36_OneCauseEarliestReady ==
    [][/\ completed # None => ReallyCompleted(completed)
       /\ (completed = None /\ completed' # None) =>
            /\ \A j \in 1..(TaskIdx(CauseOf(completed')) - 1) :
                /\ status[Tasks[j]] = "running"
            /\ completed'.kind = "Stop" =>
                \A a \in Actors : status[a] \notin HandleResults
       /\ completed # None => completed' = completed
       /\ engineLog # None => engineLog' = engineLog
       /\ engineLog' # None =>
            /\ engineLog'.cause = CauseOf(completed)
            /\ runPc' = "returned"]_vars

\* select_all has resolved with the exit of an actor although the stop
\* signal is raised too; no handle is aborted yet
C36_Witness ==
    /\ runPc = "abort"
    /\ abortIdx = 1
    /\ abortCalled = {}
    /\ completed.kind = "Actor"
    /\ completed.name = "consensus"
    /\ stopSig = "raised"
    /\ \A a \in Actors : a # "consensus" => status[a] = "running"

\* C37: when ancestry or seeded has returned on its closed or stop branch,
\* the reply sender the caller supplied is dropped without a value: the
\* matching receiver is cancelled.
C37_DroppedCallCancelsReply ==
    \A c \in Calls :
        (/\ call[c].op \in {"ancestry", "seeded"}
         /\ call[c].pc = "done"
         /\ call[c].path \in {"closed", "stop"}) =>
            reply[c].st = "canceled"

\* the variant each mailbox operation sends
VariantOfCall(op) ==
    CASE op = "genesis" -> "Genesis"
      [] op = "propose" -> "Propose"
      [] op = "verify" -> "Verify"
      [] op = "broadcast" -> "Broadcast"
      [] op = "report" -> "Finalized"
      [] op = "ancestry" -> "Ancestry"
      [] op = "seeded" -> "Seeded"

\* the messages of call c that are in sequence q
OfCall(q, c) == {i \in 1..Len(q) : q[i].call = c}

\* message m is the one call record cl of slot c stands for
CarriesArguments(m, c, cl) ==
    /\ m.call = c
    /\ m.variant = VariantOfCall(cl.op)
    /\ m.view = cl.view
    /\ m.parent = <<cl.pview, cl.pdigest>>
    /\ m.payload = cl.payload
    /\ m.block = cl.block

\* C38: each mailbox call enqueues at most one message, of the variant of
\* the call and with the call's view, parent, payload and block unchanged;
\* only the first poll of a call enqueues, and a call on a closed mailbox
\* enqueues nothing.
C38_OneMessagePerCall ==
    [][/\ \A c \in Calls :
            Cardinality(OfCall(queue', c)) + Cardinality(OfCall(received', c))
                <= 1
       /\ Len(queue') > Len(queue) =>
            \E c \in Calls :
                /\ call[c].pc = "idle" /\ call'[c].pc # "idle"
                /\ ~closed
                /\ Len(queue') = Len(queue) + 1
                /\ SubSeq(queue', 1, Len(queue)) = queue
                /\ CarriesArguments(queue'[Len(queue')], c, call'[c])
       /\ \A c \in Calls :
            /\ (call[c].pc = "idle" /\ call'[c].pc # "idle" /\ closed) =>
                    queue' = queue
            /\ call[c].pc # "idle" =>
                    Cardinality(OfCall(queue', c)) <=
                        Cardinality(OfCall(queue, c))]_vars

\* a verify call's message is queued with the call's view, parent and
\* payload, next to the message of another call
C38_Witness ==
    \E c \in Calls : \E i \in 1..Len(queue) :
        /\ call[c].op = "verify"
        /\ Len(queue) = 2
        /\ queue[i].variant = "Verify"
        /\ CarriesArguments(queue[i], c, call[c])
        /\ queue[i].payload \in Digests

(***************************************************************************)
(* Codec claims, continued                                                 *)
(***************************************************************************)

\* the stored bytes are the encoding of the held value cut after its j-th
\* field, j at or past the mandatory fields, followed by other data in the
\* same reader, and they were read
FollowedAfter(j) ==
    /\ buffer.st = "followed"
    /\ buffer.type \in Tolerant
    /\ j \in Mandatory(buffer.type)..(Len(FieldsOf(buffer.type)) - 1)
    /\ buffer.own = FieldEnd(buffer.type, j)
    /\ readResult.st = "done"

\* the bytes of the reader past the entity's own
Following == SubSeq(buffer.bytes, buffer.own + 1, Len(buffer.bytes))

\* C39: decoding a legacy truncated encoding that is followed by other data
\* in the same reader keeps the retained fields, gives every missing field
\* its default and leaves all of the following bytes unread.
C39_FollowingBytesNotRead ==
    \A j \in 0..20 :
        FollowedAfter(j) =>
            /\ readResult.ok
            /\ readResult.rest = Following
            /\ \A i \in 1..Len(FieldsOf(buffer.type)) :
                LET n == FieldsOf(buffer.type)[i][1]
                IN  readResult.value[n] =
                        IF i <= j THEN held.f[n]
                        ELSE DefaultOnTruncation(buffer.type, n)

\* this node's encoding of a value it read successfully
Reencoded == encode_on(1, buffer.type, readResult.value)

MetricsRunning == metrics.pc \in {"spawned", "sleeping"}

\* C32: the metrics task publishes the gauges on its first poll, before any
\* sleep, and from then on once each time a sleep of UPDATE_INTERVAL seconds
\* is over, going back to sleep at once; as long as it is not aborted the
\* next publish always comes, and it stops running only by being aborted.
C32_PublishesEveryInterval ==
    /\ [](metrics.pc = "spawned" => metrics.published = 0)
    /\ [](metrics.pc = "sleeping" =>
            /\ metrics.published >= 1
            /\ metrics.deadline = metrics.at + UPDATE_INTERVAL)
    /\ [][/\ metrics'.published # metrics.published =>
              /\ metrics'.published = metrics.published + 1
              /\ metrics'.pc = "sleeping"
              /\ \/ metrics.pc = "spawned"
                 \/ /\ metrics.pc = "sleeping"
                    /\ metrics.now >= metrics.at + UPDATE_INTERVAL
          /\ MetricsRunning /\ ~MetricsRunning' =>
              metrics'.pc = "aborted" /\ MetricsAbort]_vars
    /\ \A n \in 0..MaxClock :
        (/\ MetricsRunning
         /\ metrics.published = n
         /\ metrics.now + UPDATE_INTERVAL <= MaxClock)
            ~> (metrics.published = n + 1 \/ metrics.pc = "aborted")

\* the task published at its start and after each of its first two sleeps,
\* ten seconds in
C32_Witness ==
    /\ metrics.pc = "sleeping"
    /\ metrics.published = 3
    /\ metrics.at = 2 * UPDATE_INTERVAL
    /\ metrics.gauges.process_rss_bytes > 0

(***************************************************************************)
(* Staking claims                                                          *)
(***************************************************************************)

\* what the pool still owes, in 10^-18 units: the whole units every staker
\* has accrued, and the carry
Owed ==
    STAKING_REWARD_SCALE *
        SumTo([s \in 1..NumStakers |-> unclaimed_rewards(staking, s)], NumStakers)
    + staking.carry

\* distributed minus claimed minus owed, in 10^-18 units
Gap ==
    STAKING_REWARD_SCALE * (staking.distributed - staking.claimed) - Owed

====
